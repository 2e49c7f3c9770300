----------------------------- MODULE DeviceKeys -----------------------------
(***************************************************************************)
(* The devices of one user and the index from public keys to devices       *)
(* (hub/store/store.ts: registerDevice, purgeDuplicateDevices,             *)
(* fetchDevices).  Devices registered before the index existed may share a *)
(* key; registration purges them one by one.                               *)
(***************************************************************************)
EXTENDS HubRequests

CONSTANTS
  PubKeys,     \* public keys of the user's devices
  OldKey,      \* the key that two old devices share
  MaxDevice    \* BOUND: devices ever registered; older ids were created earlier

DeviceIds == 1..MaxDevice
OldIds    == {1, 2}
Platforms == {"macos", "web"}

VARIABLES
  devices,     \* ["devices", id] and ["user_devices", user, id]
  pubkeyRow    \* ["user_pubkeys", user, key] -> device

deviceRows == <<devices, pubkeyRow>>

DeviceRow == [key: PubKeys, platform: Platforms]

ASSUME DeviceAssumption ==
  MaxDevice \in Nat \ {0, 1} /\ OldKey \in PubKeys /\ Absent \notin DeviceIds \cup DeviceRow

InitDevices ==
  /\ devices = [d \in DeviceIds |->
       IF d \in OldIds THEN [key |-> OldKey, platform |-> "macos"] ELSE Absent]
  /\ pubkeyRow = [k \in PubKeys |-> Absent]

-----------------------------------------------------------------------------
With(k)     == {d \in DeviceIds : devices[d] # Absent /\ devices[d].key = k}
Earliest(S) == CHOOSE d \in S : \A e \in S : d <= e
Taken       == {k \in PubKeys : With(k) # {}}

\* fetchDevices in purgeDuplicateDevices: which device to keep for each key
RegisterStart(r, k, p) ==
  /\ Free(r, "device")
  /\ Reads(r, Begin("device", "purge", {},
       [key |-> k, platform |-> p,
        keep |-> {<<j, Earliest(With(j))>> : j \in Taken},
        drop |-> UNION {With(j) \ {Earliest(With(j))} : j \in Taken}]))
  /\ UNCHANGED <<deviceRows, overwritten>>

PurgeOne(r) ==
  /\ At(r, "device", "purge")
  /\ \E d \in req[r].mem.drop :
       /\ devices' = [devices EXCEPT ![d] = Absent]
       /\ Writes(r, On(req[r], "purge", {}, [req[r].mem EXCEPT !.drop = @ \ {d}]), {<<"device", d>>})
  /\ UNCHANGED <<pubkeyRow, overwritten>>

\* The index is refreshed key by key from the list read at the start.
Reindex(r) ==
  /\ At(r, "device", "purge") /\ req[r].mem.drop = {}
  /\ \E e \in req[r].mem.keep :
       /\ pubkeyRow' = [pubkeyRow EXCEPT ![e[1]] = e[2]]
       /\ Writes(r, On(req[r], "purge", {}, [req[r].mem EXCEPT !.keep = @ \ {e}]), {<<"index", e[1]>>})
  /\ UNCHANGED <<devices, overwritten>>

\* returnOrUpdate: nothing to do, or the row is written back with the new platform
ReturnOrUpdate(r, d, held) ==
  LET m == req[r].mem IN
  IF devices[d].platform = m.platform THEN Answer(r)
  ELSE Reads(r, On(req[r], "update", {<<"device", d>>} \cup held,
                   [key |-> m.key, device |-> d, row |-> [devices[d] EXCEPT !.platform = m.platform]]))

RegisterIndex(r) ==
  /\ At(r, "device", "purge") /\ req[r].mem.drop = {} /\ req[r].mem.keep = {}
  /\ LET k == req[r].mem.key
         d == pubkeyRow[k]
         held == IF d = Absent THEN {} ELSE {<<"index", k>>}
     IN IF d # Absent /\ devices[d] # Absent THEN ReturnOrUpdate(r, d, held)
        ELSE Reads(r, On(req[r], "legacy", held, [req[r].mem EXCEPT !.drop = {}]))
  /\ UNCHANGED <<deviceRows, overwritten>>

\* MUTANT: the index entry is not checked
IndexIgnored(q) == q.mem.key \in PubKeys

\* A device without an index entry: the entry is set, then the device returned.
RegisterLegacy(r) ==
  /\ At(r, "device", "legacy")
  /\ LET k == req[r].mem.key IN
       IF With(k) = {}
       THEN Reads(r, On(req[r], "commit", {}, req[r].mem)) /\ UNCHANGED pubkeyRow
       ELSE LET d == Earliest(With(k)) IN
            /\ pubkeyRow' = [pubkeyRow EXCEPT ![k] = d]
            /\ Writes(r, IF devices[d].platform = req[r].mem.platform THEN Idle
                         ELSE On(req[r], "update", {<<"device", d>>},
                                 [key |-> k, device |-> d,
                                  row |-> [devices[d] EXCEPT !.platform = req[r].mem.platform]]),
                      {<<"index", k>>})
  /\ UNCHANGED <<devices, overwritten>>

IndexUnchanged(q) ==
  IF <<"index", q.mem.key>> \in q.held THEN q.stale = {} ELSE pubkeyRow[q.mem.key] = Absent

RegisterCommit(r) ==
  /\ At(r, "device", "commit") /\ IndexUnchanged(req[r])
  /\ \E d \in DeviceIds :
       LET m == req[r].mem IN
       /\ devices[d] = Absent /\ d \notin OldIds /\ \A e \in 3..(d - 1) : devices[e] # Absent
       /\ devices' = [devices EXCEPT ![d] = [key |-> m.key, platform |-> m.platform]]
       /\ pubkeyRow' = [pubkeyRow EXCEPT ![m.key] = d]
       /\ Leaves(r, {<<"index", m.key>>})
  /\ UNCHANGED overwritten

\* The race is lost: the winner is returned, with its platform updated.
RegisterConflict(r) ==
  /\ At(r, "device", "commit") /\ ~IndexUnchanged(req[r])
  /\ LET d == pubkeyRow[req[r].mem.key] IN
       IF d # Absent /\ devices[d] # Absent THEN ReturnOrUpdate(r, d, {}) ELSE Answer(r)
  /\ UNCHANGED <<deviceRows, overwritten>>

RegisterUpdate(r) ==
  /\ At(r, "device", "update")
  /\ devices' = [devices EXCEPT ![req[r].mem.device] = req[r].mem.row]
  /\ Clobbers(r, {<<"device", req[r].mem.device>>})
  /\ Leaves(r, {<<"device", req[r].mem.device>>})
  /\ UNCHANGED pubkeyRow

-----------------------------------------------------------------------------
DeviceStep(r) ==
  \/ PurgeOne(r) \/ Reindex(r) \/ RegisterIndex(r) \/ RegisterLegacy(r)
  \/ RegisterCommit(r) \/ RegisterConflict(r) \/ RegisterUpdate(r)

DeviceStart(r) == \E k \in PubKeys, p \in Platforms : RegisterStart(r, k, p)

TypeOKDevices ==
  /\ devices \in [DeviceIds -> DeviceRow \cup {Absent}]
  /\ pubkeyRow \in [PubKeys -> DeviceIds \cup {Absent}]
=============================================================================
