----------------------------- MODULE RemoteStorage -----------------------------
(***************************************************************************)
(* What a client may rely on, whatever happens to its connections: one     *)
(* storage that never forgets, which executes every request it is asked    *)
(* once and in order.  What may get lost is an answer, or the end of one.  *)
(* The client's view changes by the answers it gets, by the beginnings it  *)
(* takes for answers, and by the user's edits.                             *)
(*                                                                         *)
(* The storage, the requests and the view are parameters, so that this is  *)
(* the protocol alone.  Session implements it (SessionRefinement).         *)
(***************************************************************************)
EXTENDS Naturals, Sequences

CONSTANTS Requests,
          EmptyStore,
          NewAction(_, _),      \* a storage and a request: [store, reply]
          Mirrored(_, _),       \* a view and a reply: the view after it
          Beginnings(_),        \* what a reply that was cut is read as
          SameObjects(_, _)     \* a view, and the view after an edit

VARIABLES asked,      \* the requests asked so far
          store,      \* the storage
          pending,    \* the request that was asked, until it is executed
          answer,     \* its reply, until it is delivered or lost
          view        \* the objects that the client shows

vars == <<asked, store, pending, answer, view>>

Init == /\ asked = <<>>
        /\ store = EmptyStore /\ view = EmptyStore
        /\ pending = {} /\ answer = {}

\* A request is asked when the answer to the one before has come or is known
\* to be lost.
NewRequest == /\ pending = {} /\ answer = {}
              /\ Len(asked') = Len(asked) + 1
              /\ SubSeq(asked', 1, Len(asked)) = asked

Newest == asked[Len(asked)]

Ask == /\ NewRequest
       /\ Newest' \in Requests /\ pending' = {Newest'}
       /\ UNCHANGED <<store, answer, view>>

Execute ==
    \E r \in pending :
        /\ store' = NewAction(store, r).store
        /\ answer' = {NewAction(store, r).reply}
        /\ pending' = {} /\ UNCHANGED <<asked, view>>

Deliver ==
    \E reply \in answer :
        /\ view' = Mirrored(view, reply)
        /\ answer' = {} /\ UNCHANGED <<asked, store, pending>>

\* The connection is lost within the answer, and the view changes by what there
\* was of it.
DeliverBeginning ==
    \E reply \in answer : \E part \in Beginnings(reply) :
        /\ view' = Mirrored(view, part)
        /\ answer' = {} /\ UNCHANGED <<asked, store, pending>>

\* The connection is lost before the answer is read, or where what there is of
\* it cannot be read.
LoseAnswer == /\ answer # {} /\ answer' = {}
              /\ UNCHANGED <<asked, store, pending, view>>

\* The connection is lost before the request is executed, which counts all the
\* same: the client has logged it and replays it before it asks anything else.
ExecuteUnseen ==
    \E r \in pending :
        /\ store' = NewAction(store, r).store
        /\ pending' = {} /\ UNCHANGED <<asked, answer, view>>

\* The request is written to a connection that is lost already.
AskUnseen ==
    /\ NewRequest
    /\ Newest' \in Requests /\ store' = NewAction(store, Newest').store
    /\ UNCHANGED <<pending, answer, view>>

\* The user edits builders and calculators of his view.
Edit == SameObjects(view, view') /\ UNCHANGED <<asked, store, pending, answer>>

Next == \/ Ask \/ Execute \/ Deliver \/ DeliverBeginning \/ LoseAnswer
        \/ ExecuteUnseen \/ AskUnseen \/ Edit

Spec == Init /\ [][Next]_vars
=============================================================================
