----------------------------- MODULE MapService -----------------------------
(***************************************************************************)
(* What a sorted map promises its user: a call is made, takes effect at    *)
(* one moment, and its answer is what the entries at that moment say.      *)
(* SkipList is shown to implement this specification.                      *)
(***************************************************************************)
CONSTANTS
  Key,     \* the keys
  Value,   \* the values
  NULL     \* no value, no call

VARIABLES
  dict,    \* the value of every key that is stored, NULL for the others
  request, \* the call in progress, or NULL
  reply    \* what the last call returned

mapVars == <<dict, request, reply>>

Empty == [k \in Key |-> NULL]

Requests ==
  [fn : {"insert"}, key : Key, value : Value]
    \union [fn : {"search", "delete"}, key : Key, value : {NULL}]
    \union {[fn |-> "free", key |-> NULL, value |-> NULL]}

MapInit == dict = Empty /\ request = NULL /\ reply = NULL

\* From the call of free on nothing is stored any more.
Call(r) ==
  /\ request = NULL
  /\ request' = r
  /\ dict' = IF r.fn = "free" THEN Empty ELSE dict
  /\ UNCHANGED reply

Return ==
  /\ request # NULL
  /\ request' = NULL
  /\ dict' = CASE request.fn = "insert" -> [dict EXCEPT ![request.key] = request.value]
               [] request.fn = "delete" -> [dict EXCEPT ![request.key] = NULL]
               [] OTHER -> dict
  /\ reply' = IF request.fn \in {"search", "delete"} THEN dict[request.key] ELSE NULL

MapNext == Return \/ \E r \in Requests : Call(r)

MapSpec == MapInit /\ [][MapNext]_mapVars
=============================================================================
