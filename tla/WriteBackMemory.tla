-------------------------- MODULE WriteBackMemory --------------------------
(***************************************************************************)
(* What a write-back data cache promises, without saying how: a program    *)
(* whose instructions take effect in order on one memory (view), and a     *)
(* backing memory (mem) that may lag behind but only ever catches up,      *)
(* a word at a time, to what the program wrote.  A fence is answered only  *)
(* when nothing lags any more.                                             *)
(***************************************************************************)
EXTENDS MemGeometry

VARIABLES
  view,  \* memory as the answered requests left it
  mem,   \* the backing memory, which devices read
  req,   \* the request being served
  done,  \* it is answered, and the next one is taken at this step
  val    \* the answer to a cached load

vars == <<view, mem, req, done, val>>

Cached(r) == r.addr.tag \in Tags

Performed(r, m) ==
  IF r.op = "store" /\ Cached(r)
    THEN [m EXCEPT ![r.addr.tag][r.addr.set][r.addr.word] = Merge(@, r.data, r.strb)]
    ELSE m

Answered ==
  done => /\ req.op = "load" /\ Cached(req) =>
               val = view[req.addr.tag][req.addr.set][req.addr.word]
          /\ req.op \in {"fence", "fencei"} => mem = view

Init ==
  /\ view = [t \in Tags |-> [s \in Sets |-> ZeroLine]]
  /\ mem = view
  /\ req.op = "none"

\* The answered request takes effect and another one is taken.
Answer ==
  /\ done
  /\ view' = Performed(req, view)
  /\ UNCHANGED mem
  /\ Answered'

\* While a request is served, at most one word is written back.
WriteBack ==
  \/ UNCHANGED mem
  \/ \E t \in Tags, s \in Sets, i \in Words :
       mem' = [mem EXCEPT ![t][s][i] = view[t][s][i]]

Serve ==
  /\ ~done
  /\ UNCHANGED <<view, req>>
  /\ WriteBack
  /\ Answered'

Next == Answer \/ Serve

Spec == Init /\ [][Next]_vars
=============================================================================
