------------------------------- MODULE TxnStore -------------------------------
(***************************************************************************)
(* What the block chain code expects of CTxDB: a map from keys to values,  *)
(* and handles with transactions.  Calls through a handle in a transaction *)
(* see its own pending changes over the committed map; everyone else sees  *)
(* the committed map; a commit applies the changes all at once, an abort   *)
(* or a crash none of them.                                                *)
(***************************************************************************)
CONSTANTS Keys, Values, Handles, Nil

\* A key the transaction of a handle has not touched.
Untouched == "untouched"

VARIABLES
    db,       \* the committed map, Nil where there is no record
    open,     \* the handles in a transaction
    pending,  \* what each handle has changed in its transaction
    answer    \* the last answer given: handle, key, value or Nil

vars == <<db, open, pending, answer>>

NoChange == [k \in Keys |-> Untouched]

\* What handle h sees under k.
Seen(h, k) == IF pending[h][k] = Untouched THEN db[k] ELSE pending[h][k]

Init ==
  /\ db = [k \in Keys |-> Nil]
  /\ open = {}
  /\ pending = [h \in Handles |-> NoChange]
  /\ answer = Nil

Begin(h) ==
  /\ h \notin open
  /\ open' = open \cup {h}
  /\ UNCHANGED <<db, pending, answer>>

\* x is the value written, or Nil for an erase.
Change(h, k, x) ==
  /\ IF h \in open
     THEN pending' = [pending EXCEPT ![h] = [@ EXCEPT ![k] = x]] /\ UNCHANGED db
     ELSE db' = [db EXCEPT ![k] = x] /\ UNCHANGED pending
  /\ UNCHANGED <<open, answer>>

Ask(h, k) ==
  /\ answer' = [handle |-> h, key |-> k, value |-> Seen(h, k)]
  /\ UNCHANGED <<db, open, pending>>

AskExists(h, k) ==
  /\ answer' = [handle |-> h, key |-> k, exists |-> Seen(h, k) # Nil]
  /\ UNCHANGED <<db, open, pending>>

Commit(h) ==
  /\ h \in open
  /\ db' = [k \in Keys |-> Seen(h, k)]
  /\ open' = open \ {h}
  /\ pending' = [pending EXCEPT ![h] = NoChange]
  /\ UNCHANGED answer

Abort(h) ==
  /\ open' = open \ {h}
  /\ pending' = [pending EXCEPT ![h] = NoChange]
  /\ UNCHANGED <<db, answer>>

Crash ==
  /\ open' = {}
  /\ pending' = [h \in Handles |-> NoChange]
  /\ answer' = Nil
  /\ UNCHANGED db

Next ==
  \/ \E h \in Handles :
       \/ Begin(h) \/ Commit(h) \/ Abort(h)
       \/ \E k \in Keys :
            \/ Ask(h, k) \/ AskExists(h, k)
            \/ \E x \in Values \cup {Nil} : Change(h, k, x)
  \/ Crash

Spec == Init /\ [][Next]_vars
=============================================================================
