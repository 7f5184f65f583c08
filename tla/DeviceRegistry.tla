--------------------------- MODULE DeviceRegistry ---------------------------
(***************************************************************************)
(* The table of live device connections, APP_DEVICE_STATE of               *)
(* src/device_ctx.rs: at most one connection per device (UDID).  Every     *)
(* access takes the table's mutex, so each operation below is one step.    *)
(* A connection is known by the number next_connection_id() gave it and by *)
(* its transport; the clients it owns are not modelled.                    *)
(***************************************************************************)
EXTENDS Devices, Naturals

CONSTANT
  MaxConn   \* bound: how many connection numbers are handed out

ASSUME MaxConnAssumption == MaxConn \in Nat

VARIABLE registry   \* the connection registered for each device, if any

ConnId == 1 .. MaxConn

(* NEXT_CONNECTION_ID starts at 1, so 0 stands for "no entry".             *)
NoDevice == [id |-> 0, wireless |-> FALSE]

Connection == [id : ConnId, wireless : BOOLEAN]

RegistryTypeOK == registry \in [Udid -> Connection \cup {NoDevice}]

RegistryInit == registry = [u \in Udid |-> NoDevice]

(* get_device_for_connection_opt(udid, connection_id).is_some()            *)
IsCurrent(u, c) == registry[u] # NoDevice /\ registry[u].id = c

(* Mutant of Rejects: only the transport decides.                          *)
RejectsByTransport(u, c, wireless) ==
  registry[u] # NoDevice /\ ~registry[u].wireless /\ wireless

(* insert_device: an older initialisation never replaces a newer one, and  *)
(* a wireless one never replaces a USB one.                                *)
Rejects(u, c, wireless) ==
  /\ registry[u] # NoDevice
  /\ \/ registry[u].id > c
     \/ ~registry[u].wireless /\ wireless

Insert(u, c, wireless) ==
  /\ ~Rejects(u, c, wireless)
  /\ registry' = [registry EXCEPT ![u] = [id |-> c, wireless |-> wireless]]

(* clean_device_from_app_state_if_current, when the connection is still    *)
(* the registered one.                                                     *)
RemoveIfCurrent(u, c) ==
  /\ IsCurrent(u, c)
  /\ registry' = [registry EXCEPT ![u] = NoDevice]
=============================================================================
