---------------------------- MODULE Transactions -----------------------------
(***************************************************************************)
(* What a PDO object promises of its transactions to the PHP code that     *)
(* shares it: beginTransaction(), commit() and rollBack() answer TRUE      *)
(* exactly if they took effect, once, between the question and the answer; *)
(* and a call that is not let through has a reason that the PHP code can   *)
(* see.  Connection implements this module.                                *)
(***************************************************************************)
CONSTANTS Callers

VARIABLES active,   \* the connection is inside a transaction
          asked,    \* per caller: the call it is inside
          took,     \* per caller: whether that call has taken effect
          answer    \* the last answer, and to whom it was given

vars == <<active, asked, took, answer>>

TransactionCalls == {"begin", "commit", "rollBack"}

Init ==
    /\ active = FALSE
    /\ asked = [c \in Callers |-> "none"]
    /\ took = [c \in Callers |-> "no"]
    /\ answer = <<>>

Idle(c) == asked[c] = "none"

(* "text" stands for SQL text, the constructor and the destructor: they may *)
(* begin and end transactions as they like.                                *)
Asks(c) ==
    /\ Idle(c)
    /\ \E op \in TransactionCalls \cup {"text"} : asked' = [asked EXCEPT ![c] = op]
    /\ UNCHANGED <<active, took, answer>>

(* "There is already an active transaction", "There is no active transaction" *)
NotLetThrough(c) ==
    /\ Idle(c)
    /\ \E op \in TransactionCalls :
          \/ active <=> op = "begin"
          \/ \E d \in Callers \ {c} : ~Idle(d)
    /\ answer' = <<c, FALSE>>
    /\ UNCHANGED <<active, asked, took>>

TakesEffect(c) ==
    /\ asked[c] \in TransactionCalls
    /\ took[c] = "no"
    /\ active <=> asked[c] # "begin"
    /\ active' = ~active
    /\ took' = [took EXCEPT ![c] = "yes"]
    /\ UNCHANGED <<asked, answer>>

(* A COMMIT or ROLLBACK that fails may have ended the transaction. *)
Fails(c) ==
    /\ asked[c] \in TransactionCalls
    /\ took[c] = "no"
    /\ active' \in {active, active /\ asked[c] = "begin"}
    /\ took' = [took EXCEPT ![c] = "failed"]
    /\ UNCHANGED <<asked, answer>>

Answers(c) ==
    /\ asked[c] \in TransactionCalls
    /\ asked' = [asked EXCEPT ![c] = "none"]
    /\ took' = [took EXCEPT ![c] = "no"]
    /\ answer' = <<c, took[c] = "yes">>
    /\ UNCHANGED active

TextRuns(c) ==
    /\ asked[c] = "text"
    /\ active' \in BOOLEAN
    /\ asked' \in {asked, [asked EXCEPT ![c] = "none"]}
    /\ took' \in {[took EXCEPT ![c] = a] : a \in {"no", "yes", "failed"}}
    /\ answer' \in {answer, <<c, TRUE>>, <<c, FALSE>>}

(* The object is freed. *)
Ends ==
    /\ \A c \in Callers : Idle(c)
    /\ active' = FALSE
    /\ UNCHANGED <<asked, took, answer>>

Next ==
    \/ \E c \in Callers :
          \/ Asks(c) \/ NotLetThrough(c) \/ TakesEffect(c) \/ Fails(c)
          \/ Answers(c) \/ TextRuns(c)
    \/ Ends

Spec == Init /\ [][Next]_vars
=============================================================================
