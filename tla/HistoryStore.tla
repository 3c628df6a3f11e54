---------------------------- MODULE HistoryStore ----------------------------
(***************************************************************************)
(* FileHistoryStore: one JSON file of finished texts, each call one        *)
(* read-modify-write under the store's mutex that replaces the file by a   *)
(* rename or leaves it as it was.  Saving and enforcing apply the policy   *)
(* of the settings they are given: what is older than the retention goes   *)
(* first, then all but the newest up to the limit.                         *)
(***************************************************************************)
EXTENDS Integers, FiniteSets

CONSTANTS
  Ids,       \* identities of records; their order breaks ties between equal times
  Limits,    \* limits that the settings page offers
  Days,      \* retention periods that it offers, in days
  Forever,   \* no retention period
  MaxDay     \* bound: days that pass in a behaviour

ASSUME HistoryAssumption ==
  /\ Ids \subseteq Nat /\ Limits \subseteq Nat \ {0} /\ Days \subseteq Nat \ {0}
  /\ Forever \notin Days /\ MaxDay \in Nat

VARIABLES
  records,   \* the file: which record was created on which day
  now        \* the clock's day

historyVars == <<records, now>>

HistoryTypeOK ==
  now \in 0..MaxDay /\ records \in SUBSET [id : Ids, born : 0..MaxDay]

HistoryInit == records = {} /\ now = 0

Older(r, s) == r.born < s.born \/ (r.born = s.born /\ r.id < s.id)

(* apply_limit: the newest up to the limit stay. *)
Newest(limit, rs) == {r \in rs : Cardinality({s \in rs : Older(r, s)}) < limit}

(* The cutoff of apply_policy; a record of exactly that age stays. *)
Expired(days, rs) == IF days = Forever THEN {} ELSE {r \in rs : r.born < now - days}

Retained(policy, rs) == Newest(policy.limit, rs \ Expired(policy.days, rs))

(* A write commits at its rename; before it any step may fail. *)
Write(rs, result) ==
  \/ result = "ok" /\ records' = rs
  \/ result = "failed" /\ UNCHANGED records

(* save_with_policy and enforce_policy: nothing is written while history   *)
(* is off, nor once the fence of the session has been invalidated.         *)
Save(id, policy, open, result) ==
  IF ~policy.enabled THEN result = "ok" /\ UNCHANGED records
  ELSE /\ open \/ result = "failed"
       /\ Write(Retained(policy, records \cup {[id |-> id, born |-> now]}), result)

Enforce(policy, result) ==
  IF ~policy.enabled THEN result = "ok" /\ UNCHANGED records
  ELSE Write(Retained(policy, records), result)

ClearAll(result) == Write({}, result)

(* A day passes. *)
Tick == now < MaxDay /\ now' = now + 1 /\ UNCHANGED records

=============================================================================
