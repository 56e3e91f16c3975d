---------------------------- MODULE RunRegistry ----------------------------
(***************************************************************************)
(* What the run records promise to the people who use csg, without the     *)
(* files, the scans and the steps that keep the promise.  A record belongs *)
(* to the client that supervises its run, from before the target starts:   *)
(* only that client takes it away while it does, and it counts as crashed  *)
(* once the client has left it or has ended.  One client at a time holds   *)
(* the recovery of a crashed record, and a delete removes only what its    *)
(* client holds.  No record comes back.                                    *)
(***************************************************************************)
CONSTANTS Record,    \* run records
          Client,    \* processes that supervise, recover and delete runs
          NoRecord,  \* none
          NoClient   \* nobody

VARIABLES status,      \* what has become of each record
          supervises,  \* the record whose run a client supervises
          claims,      \* the records a client takes for its own to recover
          holder       \* whom each record names as such

vars == <<status, supervises, claims, holder>>

TypeOK == /\ status \in [Record -> {"absent", "running", "crashed", "gone"}]
          /\ supervises \in [Client -> Record \cup {NoRecord}]
          /\ claims \in [Client -> SUBSET Record]
          /\ holder \in [Record -> Client \cup {NoClient}]

Init == /\ status \in [Record -> {"absent", "crashed"}]
        /\ supervises = [c \in Client |-> NoRecord]
        /\ claims = [c \in Client |-> {}]
        /\ holder = [r \in Record |-> NoClient]

\* What becomes of the runs of clients that no longer supervise them.
Orphaned(C) == [r \in Record |-> IF status[r] = "running" /\ \E c \in C : supervises[c] = r
                                 THEN "crashed" ELSE status[r]]

\* A client without a run begins one.
Track(c, r) == /\ supervises[c] = NoRecord /\ status[r] = "absent"
               /\ supervises' = [supervises EXCEPT ![c] = r]
               /\ status' = [status EXCEPT ![r] = "running"]
               /\ UNCHANGED <<claims, holder>>

\* The client that supervises a run, and nobody else, removes its record.
Settle(c, r) == /\ supervises[c] = r /\ status[r] = "running"
                /\ supervises' = [supervises EXCEPT ![c] = NoRecord]
                /\ status' = [status EXCEPT ![r] = "gone"]
                /\ holder' = [holder EXCEPT ![r] = NoClient]
                /\ UNCHANGED claims

\* It keeps the record and goes on to something else.
Leave(c) == /\ supervises' = [supervises EXCEPT ![c] = NoRecord]
            /\ status' = Orphaned({c})
            /\ UNCHANGED <<claims, holder>>

\* Only a crashed record that nobody holds can be claimed.
Claim(c, r) == /\ status[r] = "crashed" /\ holder[r] = NoClient
               /\ claims' = [claims EXCEPT ![c] = @ \cup {r}]
               /\ holder' = [holder EXCEPT ![r] = c]
               /\ UNCHANGED <<status, supervises>>

\* A client gives up a claim of its own, on the record too if it can.
Release(c, r) == /\ claims' = [claims EXCEPT ![c] = @ \ {r}]
                 /\ \/ UNCHANGED holder
                    \/ holder[r] = c /\ holder' = [holder EXCEPT ![r] = NoClient]
                 /\ UNCHANGED <<status, supervises>>

\* A client removes a crashed record it has claimed, while it holds it.
Delete(c, r) == /\ status[r] = "crashed" /\ r \in claims[c] /\ holder[r] = c
                /\ claims' = [claims EXCEPT ![c] = @ \ {r}]
                /\ status' = [status EXCEPT ![r] = "gone"]
                /\ holder' = [holder EXCEPT ![r] = NoClient]
                /\ UNCHANGED supervises

\* A listing or a hook clears a crashed record away.  It need not hold it,
\* and the record may be held: the hook of a resumed run clears away the
\* record that is resumed.
Clean(r) == /\ status[r] = "crashed"
            /\ status' = [status EXCEPT ![r] = "gone"]
            /\ holder' = [holder EXCEPT ![r] = NoClient]
            /\ UNCHANGED <<supervises, claims>>

\* Clients end, by themselves or not, and with them what they supervised
\* and claimed.
Lapse(C) ==
  /\ status' = Orphaned(C)
  /\ supervises' = [c \in Client |-> IF c \in C THEN NoRecord ELSE supervises[c]]
  /\ claims' = [c \in Client |-> IF c \in C THEN {} ELSE claims[c]]
  /\ holder' = [r \in Record |-> IF holder[r] \in C THEN NoClient ELSE holder[r]]

Next == \/ \E c \in Client : \/ Leave(c)
                             \/ \E r \in Record : \/ Track(c, r) \/ Settle(c, r)
                                                  \/ Claim(c, r) \/ Release(c, r)
                                                  \/ Delete(c, r)
        \/ \E r \in Record : Clean(r)
        \/ \E C \in SUBSET Client : Lapse(C)

Spec == Init /\ [][Next]_vars
=============================================================================
