-------------------------- MODULE RootArchiveProofs --------------------------
(***************************************************************************)
(* Proofs about RootArchive, for every set of roots, links, revisions,     *)
(* dispatches and lost updates: the branch stays one linked chain, a       *)
(* refusal is final, a receipt is timely, and the archive implements       *)
(* RootChain.  Then proofs about RootPublisher, for any number of          *)
(* publishers: they are one more source of dispatches, so that all this    *)
(* still holds, and no verdict of theirs comes too early.                  *)
(***************************************************************************)
EXTENDS RootPublisher, FiniteSetTheorems, TLAPS

\* Something follows this root (or None, for the genesis) on the branch.
Taken(tree, p) == \E d \in tree.files : DocPrevious(d) = p

\* A commit to build upon: what it is to hold next is new to it and linked to
\* it, and if the branch has moved on, something else follows its head.
Basis(tree, base, r) ==
    /\ r \notin Archived(base)
    /\ base.head = Previous[r]
    /\ tree = base \/ Taken(tree, base.head)

\* OneChain of a tree, with what makes it inductive: nothing follows the head.
Linked(tree) ==
    /\ \A d1, d2 \in tree.files : DocPrevious(d1) = DocPrevious(d2) => d1 = d2
    /\ \A d \in tree.files : DocPrevious(d) \in Archived(tree) \cup {None}
    /\ \A r \in Archived(tree) \cup {None} : r = tree.head \/ Taken(tree, r)
    /\ ~Taken(tree, tree.head)
    /\ tree.head \in Archived(tree) \cup {None}

\* What a run of root r may rely on when the branch is this tree.
RunOK(tree, r, q) ==
    /\ q.stage # "none" => q.env.root = r
    /\ q.stage \in Ready => Previous[r] \in Archived(tree) \cup {None}
    /\ q.stage \in {"write", "recover"} => Basis(tree, q.base, r)
    /\ q.stage = "recover" => Taken(tree, Previous[r])
    /\ q.stage \in {"check", "attest", "confirm", "success"} => Holds(tree, q.env)
    /\ q.stage = "refused" => Blocked(tree, q.env) /\ ~Holds(tree, q.env)

RunsOK == \A r \in Roots : RunOK(branch, r, run[r])

PendingOK == \A r \in Roots : pending[r] # None => pending[r].root = r

LateOK == \A l \in late : Basis(branch, l.base, l.doc.env.root)

IInv == TypeOK /\ Linked(branch) /\ RunsOK /\ PendingOK /\ LateOK

-----------------------------------------------------------------------------
(* Trees *)

\* What a tree and all it says keep in a later tree.
Kept(old, new) ==
    /\ old.files \subseteq new.files
    /\ \A p : Taken(old, p) => Taken(new, p)
    /\ \A base, r : Basis(old, base, r) => Basis(new, base, r)
    /\ \A e : Blocked(old, e) /\ ~Holds(old, e) => Blocked(new, e) /\ ~Holds(new, e)

\* Appending a new root to the head keeps a chain linked and all it says.
LEMMA Grows ==
    ASSUME NEW tree, NEW d, Linked(tree),
           d.env.root \notin Archived(tree) \cup {None}, DocPrevious(d) = tree.head
    PROVE  Linked(Appended(tree, d)) /\ Kept(tree, Appended(tree, d))
<1> DEFINE new == Appended(tree, d)
<1>1. new.files = tree.files \cup {d} /\ new.head = d.env.root
  BY DEF Appended
<1>2. Archived(new) = Archived(tree) \cup {d.env.root}
  BY <1>1 DEF Archived
<1>3. \A p : Taken(new, p) <=> Taken(tree, p) \/ p = tree.head
  BY <1>1 DEF Taken
<1> HIDE DEF new
<1>4. Linked(new)
  <2>1. \A d1, d2 \in new.files : DocPrevious(d1) = DocPrevious(d2) => d1 = d2
    <3>1. \A old \in tree.files : DocPrevious(old) # DocPrevious(d)
      BY DEF Linked, Taken
    <3>. QED BY <1>1, <3>1 DEF Linked
  <2>2. \A x \in new.files : DocPrevious(x) \in Archived(new) \cup {None}
    BY <1>1, <1>2 DEF Linked
  <2>3. \A r \in Archived(new) \cup {None} : r = new.head \/ Taken(new, r)
    BY <1>1, <1>2, <1>3 DEF Linked
  <2>4. ~Taken(new, new.head)
    <3>1. d.env.root # tree.head
      BY DEF Linked
    <3>2. ~Taken(tree, d.env.root)
      BY DEF Linked, Taken
    <3>. QED BY <1>1, <1>3, <3>1, <3>2
  <2>. QED BY <1>1, <1>2, <2>1, <2>2, <2>3, <2>4 DEF Linked
<1>5. Kept(tree, new)
  <2>1. ASSUME NEW base, NEW r, Basis(tree, base, r)
        PROVE  Basis(new, base, r)
    BY <1>3, <2>1 DEF Basis
  <2>2. ASSUME NEW e, Blocked(tree, e), ~Holds(tree, e)
        PROVE  Blocked(new, e) /\ ~Holds(new, e)
    <3>1. Blocked(new, e)
      BY <1>1, <2>2 DEF Blocked
    <3>2. d.env # e
      BY <2>2 DEF Blocked, Linked, Taken, DocPrevious
    <3>. QED BY <1>1, <2>2, <3>1, <3>2 DEF Holds
  <2>. QED BY <1>1, <1>3, <2>1, <2>2 DEF Kept
<1>. QED BY <1>4, <1>5 DEF new

LEMMA Same == ASSUME NEW tree PROVE Kept(tree, tree)
BY DEF Kept

\* What a run relies on stays.
LEMMA RunKept ==
    ASSUME NEW old, NEW new, NEW r, NEW q, Kept(old, new), RunOK(old, r, q)
    PROVE  RunOK(new, r, q)
<1>1. Archived(old) \subseteq Archived(new)
  BY DEF Kept, Archived
<1>2. \A e : Holds(old, e) => Holds(new, e)
  BY DEF Kept, Holds
<1>. QED BY <1>1, <1>2 DEF Kept, RunOK

\* An envelope that cannot be appended and need not wait is blocked.
LEMMA NoPlace ==
    ASSUME NEW tree, NEW e, Linked(tree), ~Holds(tree, e),
           Previous[e.root] \in Archived(tree) \cup {None},
           e.root \in Archived(tree) \/ tree.head # Previous[e.root]
    PROVE  Blocked(tree, e)
<1>1. CASE e.root \in Archived(tree)
  BY <1>1 DEF Archived, Blocked, Holds, DocPrevious
<1>2. CASE tree.head # Previous[e.root]
  BY <1>2 DEF Linked, Taken, Blocked, Holds
<1>. QED BY <1>1, <1>2

-----------------------------------------------------------------------------
(* The inductive invariant *)

LEMMA InitIInv == Init => IInv
BY TimeAssumption, NoneAssumption
   DEF Init, IInv, TypeOK, Times, Trees, EmptyTree, Runs, NoRun, Linked, Archived, Taken,
       RunsOK, RunOK, Ready, PendingOK, LateOK

\* A run that has begun is a full record.
LEMMA RunType ==
    ASSUME TypeOK, NEW r \in Roots, run[r].stage # "none"
    PROVE  /\ run[r] \in [stage: Stages, env: Envelopes, at: Times, base: Trees]
           /\ RunDoc(r) \in Documents
BY DEF TypeOK, Runs, NoRun, RunDoc, Doc, Documents

\* The branch may move on, and one run with it.
LEMMA RunsMove ==
    ASSUME TypeOK, RunsOK, NEW r \in Roots, NEW q \in Runs,
           run' = [run EXCEPT ![r] = q], Kept(branch, branch'), RunOK(branch', r, q)
    PROVE  RunsOK' /\ run' \in [Roots -> Runs]
<1>1. run' \in [Roots -> Runs] /\ run'[r] = q
  BY DEF TypeOK
<1>2. ASSUME NEW s \in Roots PROVE RunOK(branch', s, run'[s])
  <2>1. CASE s = r
    BY <1>1, <2>1
  <2>2. CASE s # r
    <3>1. run'[s] = run[s]
      BY <2>2 DEF TypeOK
    <3>2. RunOK(branch, s, run[s])
      BY DEF RunsOK
    <3>. QED BY <3>1, <3>2, RunKept
  <2>. QED BY <2>1, <2>2
<1>. QED BY <1>1, <1>2 DEF RunsOK

\* Updates on their way keep their bases as the branch moves on.
LEMMA LateKept ==
    ASSUME LateOK, Kept(branch, branch'), late' \subseteq late
    PROVE  LateOK'
BY DEF LateOK, Kept

\* A step of one run that changes nothing else.
LEMMA RunAlone ==
    ASSUME IInv, NEW r \in Roots, NEW q \in Runs,
           run' = [run EXCEPT ![r] = q], RunOK(branch, r, q),
           UNCHANGED <<now, branch, pending, late>>
    PROVE  IInv'
<1>1. Kept(branch, branch')
  BY Same
<1>2. RunsOK' /\ run' \in [Roots -> Runs]
  BY <1>1, RunsMove DEF IInv
<1>3. LateOK'
  BY <1>1, LateKept DEF IInv
<1>. QED BY <1>2, <1>3 DEF IInv, TypeOK, PendingOK

\* A run that goes on to a stage it is ready for.
LEMMA GoesAlone ==
    ASSUME IInv, NEW r \in Roots, NEW stage \in Stages, run[r].stage # "none",
           Goto(r, stage),
           RunOK(branch, r, Run(stage, run[r].env, run[r].at, run[r].base)),
           UNCHANGED <<now, branch, pending, late>>
    PROVE  IInv'
<1> DEFINE q == Run(stage, run[r].env, run[r].at, run[r].base)
<1>1. q \in Runs
  BY RunType DEF IInv, Runs, Run
<1>2. run' = [run EXCEPT ![r] = q]
  BY DEF Goto
<1> HIDE DEF q
<1>3. RunOK(branch, r, q)
  BY DEF q
<1>. QED BY <1>1, <1>2, <1>3, RunAlone

\* A commit built on the head of the branch takes the place of the branch.
LEMMA CommitKeeps ==
    ASSUME IInv, NEW d \in Documents, NEW base, Basis(branch, base, d.env.root),
           branch = base, branch' = Appended(base, d)
    PROVE  /\ Linked(branch') /\ Kept(branch, branch') /\ branch' \in Trees
           /\ Holds(branch', d.env) /\ Previous[d.env.root] \in Archived(branch') \cup {None}
<1>1. d.env.root \in Roots
  BY DEF Documents, Envelopes
<1>2. d.env.root \notin Archived(branch) \cup {None} /\ DocPrevious(d) = branch.head
  BY <1>1, NoneAssumption DEF Basis, DocPrevious
<1>3. Linked(branch') /\ Kept(branch, branch')
  BY <1>2, Grows DEF IInv
<1>4. branch' \in Trees
  BY <1>1 DEF IInv, TypeOK, Trees, Appended
<1>5. d \in branch'.files
  BY DEF Appended
<1>6. Previous[d.env.root] \in Archived(branch') \cup {None}
  BY <1>3, <1>5 DEF Linked, DocPrevious
<1>. QED BY <1>3, <1>4, <1>5, <1>6 DEF Holds

LEMMA NextIInv == IInv /\ [Next]_vars => IInv'
<1> SUFFICES ASSUME IInv, [Next]_vars PROVE IInv'
  OBVIOUS
<1> USE DEF IInv
<1>1. ASSUME NEW r \in Roots, StartRun(r) PROVE IInv'
  <2> DEFINE q == Run("prepare", pending[r], now, EmptyTree)
  <2>1. pending[r] \in Envelopes /\ pending[r].root = r
    BY <1>1 DEF StartRun, TypeOK, PendingOK
  <2>2. q \in Runs /\ RunOK(branch, r, q)
    BY <2>1 DEF Run, Runs, TypeOK, Stages, Active, Trees, EmptyTree, RunOK, Ready
  <2>3. Kept(branch, branch')
    BY <1>1, Same DEF StartRun
  <2>4. run' = [run EXCEPT ![r] = q] /\ UNCHANGED <<now, branch, late>>
    BY <1>1 DEF StartRun
  <2> HIDE DEF q
  <2>5. RunsOK' /\ run' \in [Roots -> Runs]
    BY <2>2, <2>3, <2>4, RunsMove
  <2>6. LateOK'
    BY <2>3, <2>4, LateKept
  <2>. QED BY <1>1, <2>4, <2>5, <2>6 DEF StartRun, TypeOK, PendingOK
<1>2. ASSUME NEW r \in Roots, PrepareReplay(r) PROVE IInv'
  <2>1. PICK d \in branch.files :
            d.env = run[r].env /\ run' = [run EXCEPT ![r] = Run("read", run[r].env, d.at, EmptyTree)]
    BY <1>2 DEF PrepareReplay
  <2> DEFINE q == Run("read", run[r].env, d.at, EmptyTree)
  <2>2. run[r].env.root = r /\ run[r].env \in Envelopes /\ d \in Documents
    BY <1>2, RunType DEF PrepareReplay, RunsOK, RunOK, TypeOK, Trees
  <2>3. Previous[r] \in Archived(branch) \cup {None}
    BY <2>1, <2>2 DEF Linked, DocPrevious
  <2>4. q \in Runs /\ RunOK(branch, r, q)
    BY <2>2, <2>3 DEF Run, Runs, Documents, Stages, Active, Trees, EmptyTree, RunOK, Ready
  <2> HIDE DEF q
  <2>5. run' = [run EXCEPT ![r] = q] /\ UNCHANGED <<now, branch, pending, late>>
    BY <1>2, <2>1 DEF PrepareReplay, q
  <2>. QED BY <2>4, <2>5, RunAlone
<1>3. ASSUME NEW r \in Roots, PrepareNew(r) PROVE IInv'
  <2> DEFINE q == Run("read", run[r].env, now, EmptyTree)
  <2>1. run[r].env.root = r /\ run[r].env \in Envelopes
    BY <1>3, RunType DEF PrepareNew, RunsOK, RunOK
  <2>2. Previous[r] \in Archived(branch) \cup {None}
    BY <1>3 DEF PrepareNew, Linked
  <2>3. q \in Runs /\ RunOK(branch, r, q)
    BY <2>1, <2>2 DEF Run, Runs, TypeOK, Stages, Active, Trees, EmptyTree, RunOK, Ready
  <2>4. run' = [run EXCEPT ![r] = q] /\ UNCHANGED <<now, branch, pending, late>>
    BY <1>3 DEF PrepareNew
  <2> HIDE DEF q
  <2>. QED BY <2>3, <2>4, RunAlone
<1>4. ASSUME NEW r \in Roots, ReadNew(r) PROVE IInv'
  <2> DEFINE q == Run("write", run[r].env, run[r].at, branch)
  <2>1. run[r].stage = "read" /\ Extends(r)
    BY <1>4 DEF ReadNew
  <2>2. q \in Runs
    BY <2>1, RunType DEF Run, Runs, TypeOK, Stages, Active
  <2>3. RunOK(branch, r, q)
    BY <2>1 DEF Run, RunsOK, RunOK, Ready, Extends, Basis
  <2>4. run' = [run EXCEPT ![r] = q] /\ UNCHANGED <<now, branch, pending, late>>
    BY <1>4 DEF ReadNew
  <2> HIDE DEF q
  <2>. QED BY <2>2, <2>3, <2>4, RunAlone
<1>5. ASSUME NEW r \in Roots, PrepareRefused(r) \/ ReadRefused(r) PROVE IInv'
  <2> DEFINE e == run[r].env
  <2>1. e.root = r /\ ~Holds(branch, e) /\ run[r].stage \in {"prepare", "read"}
    BY <1>5 DEF PrepareRefused, ReadRefused, RunsOK, RunOK
  <2>2. Previous[r] \in Archived(branch) \cup {None}
    <3>1. CASE PrepareRefused(r)
      <4>1. CASE r \in Archived(branch)
        BY <4>1 DEF Archived, Linked, DocPrevious
      <4>2. CASE ~MustWait(r)
        BY <4>2 DEF MustWait
      <4>. QED BY <3>1, <4>1, <4>2 DEF PrepareRefused
    <3>2. CASE ReadRefused(r)
      BY <3>2 DEF ReadRefused, RunsOK, RunOK, Ready
    <3>. QED BY <1>5, <3>1, <3>2
  <2>3. r \in Archived(branch) \/ branch.head # Previous[r]
    BY <1>5 DEF PrepareRefused, ReadRefused, Extends
  <2>4. Blocked(branch, e)
    BY <2>1, <2>2, <2>3, NoPlace
  <2>5. RunOK(branch, r, Run("refused", e, run[r].at, run[r].base))
    BY <2>1, <2>4 DEF Run, RunOK, Ready
  <2>6. Goto(r, "refused") /\ UNCHANGED <<now, branch, pending, late>>
    BY <1>5 DEF PrepareRefused, ReadRefused
  <2>. QED BY <2>1, <2>5, <2>6, GoesAlone DEF Stages, Over
<1>6. ASSUME NEW r \in Roots, run[r].stage \in Active, Goto(r, "failed"),
             UNCHANGED <<now, branch, pending, late>>
      PROVE  IInv'
  <2>1. RunOK(branch, r, Run("failed", run[r].env, run[r].at, run[r].base))
    BY <1>6 DEF Run, RunsOK, RunOK, Ready, Active
  <2>. QED BY <1>6, <2>1, GoesAlone DEF Stages, Over, Active
<1>7. ASSUME NEW r \in Roots, NEW stage \in {"check", "attest", "confirm", "success"},
             run[r].stage \in Ready, Holds(branch, run[r].env), Goto(r, stage),
             UNCHANGED <<now, branch, pending, late>>
      PROVE  IInv'
  <2>1. RunOK(branch, r, Run(stage, run[r].env, run[r].at, run[r].base))
    BY <1>7 DEF Run, RunsOK, RunOK, Ready
  <2>. QED BY <1>7, <2>1, GoesAlone DEF Stages, Active, Over, Ready
<1>8. ASSUME NEW r \in Roots, run[r].stage \in {"check", "attest", "confirm"}
      PROVE  run[r].stage \in Ready /\ Holds(branch, run[r].env)
  BY <1>8 DEF RunsOK, RunOK, Ready
<1>9. ASSUME NEW r \in Roots, Check(r) \/ Attest(r) \/ Confirm(r) PROVE IInv'
  BY <1>6, <1>7, <1>8, <1>9 DEF Check, Attest, Confirm, Active
<1>10. ASSUME NEW r \in Roots, ReadArchived(r) PROVE IInv'
  BY <1>7, <1>10 DEF ReadArchived, Ready
<1>11. ASSUME NEW r \in Roots, Write(r) PROVE IInv'
  <2> DEFINE d == RunDoc(r)
  <2>1. /\ d \in Documents /\ d.env = run[r].env /\ d.env.root = r
        /\ Basis(branch, run[r].base, r) /\ branch = run[r].base
        /\ branch' = Appended(run[r].base, d)
    BY <1>11, RunType DEF Write, FastForward, RunsOK, RunOK, RunDoc, Doc
  <2> HIDE DEF d
  <2>2. /\ Linked(branch') /\ Kept(branch, branch') /\ branch' \in Trees
        /\ Holds(branch', run[r].env) /\ Previous[r] \in Archived(branch') \cup {None}
    BY <2>1, CommitKeeps
  <2>3. PICK stage \in {"check", "failed"} : Goto(r, stage)
    BY <1>11 DEF Write
  <2> DEFINE q == Run(stage, run[r].env, run[r].at, run[r].base)
  <2>4. q \in Runs
    BY <1>11, RunType DEF Write, Run, Runs, Stages, Active, Over
  <2>5. RunOK(branch', r, q)
    BY <2>1, <2>2 DEF Run, RunOK, Ready
  <2>6. run' = [run EXCEPT ![r] = q] /\ UNCHANGED <<now, pending, late>>
    BY <1>11, <2>3 DEF Goto, Write
  <2> HIDE DEF q
  <2>7. RunsOK' /\ run' \in [Roots -> Runs]
    BY <2>2, <2>4, <2>5, <2>6, RunsMove
  <2>8. LateOK'
    BY <2>2, <2>6, LateKept
  <2>. QED BY <2>2, <2>6, <2>7, <2>8 DEF TypeOK, PendingOK
<1>12. ASSUME NEW r \in Roots, WriteConflict(r) PROVE IInv'
  <2>1. run[r].stage = "write" /\ branch # run[r].base
    BY <1>12 DEF WriteConflict
  <2>2. Basis(branch, run[r].base, r) /\ Taken(branch, Previous[r])
    BY <2>1 DEF RunsOK, RunOK, Basis
  <2>3. RunOK(branch, r, Run("recover", run[r].env, run[r].at, run[r].base))
    BY <2>1, <2>2 DEF Run, RunsOK, RunOK, Ready
  <2>. QED BY <1>12, <2>1, <2>3, GoesAlone DEF WriteConflict, Stages, Active
<1>13. ASSUME NEW r \in Roots, WriteDelayed(r) PROVE IInv'
  <2> DEFINE l == [doc |-> RunDoc(r), base |-> run[r].base]
             q == Run("failed", run[r].env, run[r].at, run[r].base)
  <2>1. run[r].stage = "write" /\ late' = late \cup {l} /\ run' = [run EXCEPT ![r] = q]
    BY <1>13 DEF WriteDelayed, Goto
  <2>2. /\ l \in [doc: Documents, base: Trees] /\ Basis(branch, l.base, l.doc.env.root)
    BY <2>1, RunType DEF RunsOK, RunOK, RunDoc, Doc
  <2>3. q \in Runs /\ RunOK(branch, r, q)
    BY <2>1, RunType DEF Run, Runs, Stages, Over, RunsOK, RunOK, Ready
  <2>4. UNCHANGED <<now, branch, pending>> /\ Kept(branch, branch')
    BY <1>13, Same DEF WriteDelayed
  <2> HIDE DEF q, l
  <2>5. RunsOK' /\ run' \in [Roots -> Runs]
    BY <2>1, <2>3, <2>4, RunsMove
  <2>6. LateOK'
    BY <2>1, <2>2, <2>4 DEF LateOK
  <2>. QED BY <2>1, <2>2, <2>4, <2>5, <2>6 DEF TypeOK, PendingOK
<1>14. ASSUME NEW r \in Roots, Recover(r) PROVE IInv'
  <2>1. CASE Holds(branch, run[r].env)
    BY <1>7, <1>14, <2>1 DEF Recover, Ready
  <2>2. CASE ~Holds(branch, run[r].env)
    <3>1. run[r].stage = "recover" /\ Goto(r, "refused")
      BY <1>14, <2>2 DEF Recover
    <3>2. run[r].env.root = r /\ Taken(branch, Previous[r])
      BY <3>1 DEF RunsOK, RunOK
    <3>3. Blocked(branch, run[r].env)
      BY <2>2, <3>2 DEF Taken, Blocked, Holds
    <3>4. RunOK(branch, r, Run("refused", run[r].env, run[r].at, run[r].base))
      BY <2>2, <3>2, <3>3 DEF Run, RunOK, Ready
    <3>. QED BY <1>14, <3>1, <3>4, GoesAlone DEF Recover, Stages, Over
  <2>. QED BY <2>1, <2>2
<1>15. ASSUME NEW l \in late, Land(l) PROVE IInv'
  <2>1. late' \subseteq late /\ UNCHANGED <<now, pending, run>>
    BY <1>15 DEF Land
  <2>2. Linked(branch') /\ Kept(branch, branch') /\ branch' \in Trees
    <3>1. CASE FastForward(l.base)
      <4>1. /\ l.doc \in Documents /\ Basis(branch, l.base, l.doc.env.root)
            /\ branch = l.base /\ branch' = Appended(l.base, l.doc)
        BY <1>15, <3>1 DEF Land, FastForward, TypeOK, LateOK
      <4>. QED BY <4>1, CommitKeeps
    <3>2. CASE ~FastForward(l.base)
      BY <1>15, <3>2, Same DEF Land, TypeOK
    <3>. QED BY <3>1, <3>2
  <2>3. RunsOK'
    BY <2>1, <2>2, RunKept DEF RunsOK
  <2>4. LateOK'
    BY <2>1, <2>2, LateKept
  <2>. QED BY <2>1, <2>2, <2>3, <2>4 DEF TypeOK, PendingOK
<1>16. ASSUME Tick \/ UNCHANGED vars PROVE IInv'
  <2>1. UNCHANGED <<branch, pending, run, late>> /\ now' \in Times
    BY <1>16, TimeAssumption DEF Tick, vars, TypeOK, Times
  <2>. QED BY <2>1 DEF TypeOK, RunsOK, PendingOK, LateOK
<1>17. ASSUME NEW e \in Replayed, Dispatch(e) PROVE IInv'
  <2>1. e \in Envelopes /\ UNCHANGED <<now, branch, run, late>>
    BY <1>17, ReplayedAssumption DEF Dispatch
  <2>2. pending' = [pending EXCEPT ![e.root] = e]
    BY <1>17 DEF Dispatch
  <2>. QED BY <2>1, <2>2 DEF TypeOK, RunsOK, PendingOK, LateOK
<1>18. ASSUME NEW r \in Roots, PrepareTooEarly(r) \/ GiveUp(r) \/ Break(r) PROVE IInv'
  BY <1>6, <1>18 DEF PrepareTooEarly, GiveUp, Break, Active
<1>. QED
  BY <1>1, <1>2, <1>3, <1>4, <1>5, <1>9, <1>10, <1>11, <1>12, <1>13, <1>14, <1>15,
     <1>16, <1>17, <1>18 DEF Next, ArchiveStep, RunStep

\* The branch changes by commits that append to it, if it changes at all.
LEMMA BranchGrows ==
    ASSUME IInv, [Next]_vars
    PROVE  \/ branch' = branch
           \/ \E d \in Documents : /\ d.env.root \notin Archived(branch)
                                   /\ DocPrevious(d) = branch.head
                                   /\ branch' = Appended(branch, d)
<1>1. ASSUME NEW r \in Roots, Write(r)
      PROVE  \E d \in Documents : /\ d.env.root \notin Archived(branch)
                                 /\ DocPrevious(d) = branch.head
                                 /\ branch' = Appended(branch, d)
  <2>1. /\ RunDoc(r) \in Documents /\ RunDoc(r).env.root = r
        /\ Basis(branch, run[r].base, r) /\ branch = run[r].base
        /\ branch' = Appended(run[r].base, RunDoc(r))
    BY <1>1, RunType DEF Write, FastForward, IInv, RunsOK, RunOK, RunDoc, Doc
  <2>. QED BY <2>1 DEF Basis, DocPrevious
<1>2. ASSUME NEW l \in late, Land(l), FastForward(l.base)
      PROVE  \E d \in Documents : /\ d.env.root \notin Archived(branch)
                                 /\ DocPrevious(d) = branch.head
                                 /\ branch' = Appended(branch, d)
  <2>1. /\ l.doc \in Documents /\ Basis(branch, l.base, l.doc.env.root)
        /\ branch = l.base /\ branch' = Appended(l.base, l.doc)
    BY <1>2 DEF Land, FastForward, IInv, TypeOK, LateOK
  <2>. QED BY <2>1 DEF Basis, DocPrevious
<1>3. ASSUME NEW l \in late, Land(l), ~FastForward(l.base) PROVE branch' = branch
  BY <1>3 DEF Land
<1>4. ASSUME NEW r \in Roots, StartRun(r) \/ (RunStep(r) /\ ~Write(r)) \/ Break(r)
      PROVE  branch' = branch
  BY <1>4 DEF StartRun, RunStep, PrepareReplay, PrepareNew, PrepareRefused, PrepareTooEarly,
       GiveUp, ReadArchived, ReadNew, ReadRefused, WriteConflict, WriteDelayed, Recover,
       Check, Attest, Confirm, Break
<1>5. Tick \/ UNCHANGED vars \/ (\E e \in Replayed : Dispatch(e)) => branch' = branch
  BY DEF Tick, vars, Dispatch
<1>. QED BY <1>1, <1>2, <1>3, <1>4, <1>5 DEF Next, ArchiveStep, RunStep

LEMMA BranchKept == ASSUME IInv, [Next]_vars PROVE Kept(branch, branch')
<1>1. CASE branch' = branch
  BY <1>1, Same
<1>2. ASSUME NEW d \in Documents, d.env.root \notin Archived(branch),
             DocPrevious(d) = branch.head, branch' = Appended(branch, d)
      PROVE  Kept(branch, branch')
  <2>1. d.env.root \notin Archived(branch) \cup {None}
    BY <1>2, NoneAssumption DEF Documents, Envelopes
  <2>. QED BY <1>2, <2>1, Grows DEF IInv
<1>. QED BY <1>1, <1>2, BranchGrows

LEMMA Inductive == Spec => []IInv
BY InitIInv, NextIInv, PTL DEF Spec

-----------------------------------------------------------------------------
(* Theorems *)

\* Every variable keeps its type.
THEOREM TypesHold == Spec => []TypeOK
<1>1. IInv => TypeOK
  BY DEF IInv
<1>. QED BY <1>1, Inductive, PTL

\* The branch is one linked chain: no forks, no missing predecessors.
THEOREM OneChainHolds == Spec => []OneChain
<1>1. IInv => OneChain
  BY DEF IInv, Linked, OneChain, Taken
<1>. QED BY <1>1, Inductive, PTL

\* An envelope refused by a run is not archived and its place is taken.
THEOREM RefusalIsFinalHolds == Spec => []RefusalIsFinal
<1>1. IInv => RefusalIsFinal
  BY DEF IInv, RunsOK, RunOK, RefusalIsFinal
<1>. QED BY <1>1, Inductive, PTL

\* A place that is taken stays taken.
THEOREM BlockedForGoodHolds == Spec => BlockedForGood
<1>1. IInv /\ [Next]_vars =>
        [\A e \in Replayed : Blocked(branch, e) => Blocked(branch, e)']_vars
  BY BranchKept DEF Kept, Blocked
<1>. QED BY <1>1, Inductive, PTL DEF Spec, BlockedForGood

\* A run succeeds before its deadline and with its envelope archived.
THEOREM ReceiptIsTimelyHolds == Spec => ReceiptIsTimely
<1> DEFINE Receipt ==
      \A r \in Roots :
         run[r].stage # "success" /\ run'[r].stage = "success" =>
             now < Deadline[r] /\ Holds(branch, run[r].env)
<1>1. IInv /\ [Next]_vars => [Receipt]_vars
  <2> SUFFICES ASSUME IInv, Next, NEW r \in Roots,
                      run[r].stage # "success", run'[r].stage = "success"
               PROVE  now < Deadline[r] /\ Holds(branch, run[r].env)
    BY DEF vars
  <2>1. run \in [Roots -> Runs]
    BY DEF IInv, TypeOK
  <2>2. PICK s \in Roots : StartRun(s) \/ RunStep(s) \/ Break(s)
    BY DEF Next, ArchiveStep, Dispatch, Tick, Land
  <2>3. \A q : run' = [run EXCEPT ![s] = q] => s = r /\ q.stage = "success"
    BY <2>1
  <2>4. \A stage : Goto(s, stage) => s = r /\ stage = "success"
    BY <2>3 DEF Goto, Run
  <2>5. ~StartRun(s) /\ ~Break(s)
    BY <2>3, <2>4 DEF StartRun, Break, Run
  <2>6. ~(PrepareReplay(s) \/ PrepareNew(s) \/ PrepareRefused(s) \/ PrepareTooEarly(s)
           \/ GiveUp(s))
    BY <2>3, <2>4 DEF PrepareReplay, PrepareNew, PrepareRefused, PrepareTooEarly, GiveUp, Run
  <2>7. ~(ReadArchived(s) \/ ReadNew(s) \/ ReadRefused(s) \/ Write(s) \/ WriteConflict(s))
    BY <2>3, <2>4 DEF ReadArchived, ReadNew, ReadRefused, Write, WriteConflict, Run
  <2>8. ~(WriteDelayed(s) \/ Recover(s) \/ Check(s) \/ Attest(s))
    BY <2>4 DEF WriteDelayed, Recover, Check, Attest
  <2>9. Confirm(s)
    BY <2>2, <2>5, <2>6, <2>7, <2>8 DEF RunStep
  <2>. QED BY <2>4, <2>9 DEF Confirm, InTime, IInv, RunsOK, RunOK
<1>. QED BY <1>1, Inductive, PTL DEF Spec, ReceiptIsTimely

\* The archive implements RootChain: its branch only grows, by one document at
\* a time that names the head as its predecessor.
THEOREM ChainImplemented == Spec => ChainRefined
<1>1. Init => Chain!ChainInit
  BY DEF Init, EmptyTree, Chain!ChainInit
<1>2. IInv /\ [Next]_vars => [Chain!ChainNext]_(Chain!chainVars)
  <2> SUFFICES ASSUME IInv, [Next]_vars
               PROVE  Chain!ChainNext \/ UNCHANGED Chain!chainVars
    OBVIOUS
  <2>1. CASE branch' = branch
    BY <2>1 DEF Chain!chainVars
  <2>2. ASSUME NEW d \in Documents, d.env.root \notin Archived(branch),
               DocPrevious(d) = branch.head, branch' = Appended(branch, d)
        PROVE  Chain!ChainNext
    <3>1. Chain!Append(d)
      BY <2>2 DEF Chain!Append, Appended, Archived, DocRoot
    <3>. QED BY <3>1 DEF Chain!ChainNext
  <2>. QED BY <2>1, <2>2, BranchGrows
<1>. QED BY <1>1, <1>2, Inductive, PTL DEF Spec, ChainRefined, Chain!ChainSpec

\* Without late updates, the document of a ready run is the archived one, or its
\* root is still to be archived, by this run and no other.
ExactRun(tree, r, q) ==
    q.stage \in Ready =>
        \/ Doc(q.env, q.at) \in tree.files
        \/ r \notin Archived(tree) /\ q.stage \in {"read", "write", "recover"}

Exact == late = {} /\ \A r \in Roots : ExactRun(branch, r, run[r])

LEMMA NextExact ==
    ASSUME MaxLate = 0, IInv, Exact, [Next]_vars
    PROVE  Exact'
<1>1. late' = {}
  <2>1. \A r \in Roots : ~WriteDelayed(r)
    BY FS_EmptySet DEF WriteDelayed, Exact
  <2>. QED BY <2>1 DEF Exact, Next, ArchiveStep, RunStep, StartRun, PrepareReplay, PrepareNew,
       PrepareRefused, PrepareTooEarly, GiveUp, ReadArchived, ReadNew, ReadRefused, Write,
       WriteConflict, Recover, Check, Attest, Confirm, Break, Land, Tick, Dispatch, vars
<1>2. ASSUME NEW r \in Roots, NEW q, run' = [run EXCEPT ![r] = q], branch' = branch,
             ExactRun(branch, r, q)
      PROVE  Exact'
  <2>1. \A s \in Roots : run'[s] = IF s = r THEN q ELSE run[s]
    BY <1>2 DEF IInv, TypeOK
  <2>. QED BY <1>1, <1>2, <2>1 DEF Exact
<1>3. ASSUME NEW r \in Roots, NEW stage, Goto(r, stage), branch' = branch,
             ExactRun(branch, r, Run(stage, run[r].env, run[r].at, run[r].base))
      PROVE  Exact'
  BY <1>2, <1>3 DEF Goto
<1>4. ASSUME NEW r \in Roots, StartRun(r) PROVE Exact'
  <2>1. ExactRun(branch, r, Run("prepare", pending[r], now, EmptyTree))
    BY DEF ExactRun, Run, Ready
  <2>. QED BY <1>2, <1>4, <2>1 DEF StartRun
<1>5. ASSUME NEW r \in Roots, PrepareReplay(r) PROVE Exact'
  <2>1. PICK d \in branch.files :
            d.env = run[r].env /\ run' = [run EXCEPT ![r] = Run("read", run[r].env, d.at, EmptyTree)]
    BY <1>5 DEF PrepareReplay
  <2>2. d = Doc(run[r].env, d.at)
    BY <2>1 DEF IInv, TypeOK, Trees, Documents, Doc
  <2>3. ExactRun(branch, r, Run("read", run[r].env, d.at, EmptyTree))
    BY <2>1, <2>2 DEF ExactRun, Run
  <2>. QED BY <1>2, <1>5, <2>1, <2>3 DEF PrepareReplay
<1>6. ASSUME NEW r \in Roots, PrepareNew(r) PROVE Exact'
  <2>1. ExactRun(branch, r, Run("read", run[r].env, now, EmptyTree))
    BY <1>6 DEF PrepareNew, ExactRun, Run
  <2>. QED BY <1>2, <1>6, <2>1 DEF PrepareNew
<1>7. ASSUME NEW r \in Roots, ReadNew(r) PROVE Exact'
  <2>1. ExactRun(branch, r, Run("write", run[r].env, run[r].at, branch))
    BY <1>7 DEF ReadNew, Extends, ExactRun, Run
  <2>. QED BY <1>2, <1>7, <2>1 DEF ReadNew
<1>8. ASSUME NEW r \in Roots, NEW stage \in {"failed", "refused"}, Goto(r, stage), branch' = branch
      PROVE  Exact'
  BY <1>3, <1>8 DEF ExactRun, Run, Ready
<1>9. ASSUME NEW r \in Roots, run[r].stage \in Ready, Holds(branch, run[r].env)
      PROVE  RunDoc(r) \in branch.files
  <2>1. r \in Archived(branch)
    BY <1>9 DEF Holds, Archived, IInv, RunsOK, RunOK, Ready
  <2>. QED BY <1>9, <2>1 DEF Exact, ExactRun, RunDoc
<1>10. ASSUME NEW r \in Roots, NEW stage, run[r].stage \in Ready, Holds(branch, run[r].env),
              Goto(r, stage), branch' = branch
       PROVE  Exact'
  BY <1>3, <1>9, <1>10 DEF ExactRun, Run, RunDoc
<1>11. ASSUME NEW r \in Roots,
              ReadArchived(r) \/ Recover(r) \/ Check(r) \/ Attest(r) \/ Confirm(r)
       PROVE  Exact'
  <2>1. run[r].stage \in {"check", "attest", "confirm"} => Holds(branch, run[r].env)
    BY DEF IInv, RunsOK, RunOK
  <2>. QED BY <1>8, <1>10, <1>11, <2>1
          DEF ReadArchived, Recover, Check, Attest, Confirm, Ready
<1>12. ASSUME NEW r \in Roots, PrepareRefused(r) \/ PrepareTooEarly(r) \/ GiveUp(r)
                               \/ ReadRefused(r) \/ Break(r)
       PROVE  Exact'
  BY <1>8, <1>12 DEF PrepareRefused, PrepareTooEarly, GiveUp, ReadRefused, Break
<1>13. ASSUME NEW r \in Roots, WriteConflict(r) PROVE Exact'
  <2>1. ExactRun(branch, r, Run("recover", run[r].env, run[r].at, run[r].base))
    BY <1>13 DEF WriteConflict, Exact, ExactRun, Run, Ready
  <2>. QED BY <1>3, <1>13, <2>1 DEF WriteConflict
<1>14. ASSUME NEW r \in Roots, Write(r) PROVE Exact'
  <2>1. /\ branch'.files = branch.files \cup {RunDoc(r)} /\ RunDoc(r).env.root = r
        /\ RunDoc(r) = Doc(run[r].env, run[r].at)
    BY <1>14 DEF Write, FastForward, Appended, IInv, RunsOK, RunOK, RunDoc, Doc
  <2>2. PICK stage : run' = [run EXCEPT ![r] = Run(stage, run[r].env, run[r].at, run[r].base)]
    BY <1>14 DEF Write, Goto
  <2>3. ASSUME NEW s \in Roots PROVE ExactRun(branch', s, run'[s])
    <3>1. CASE s = r
      BY <2>1, <2>2, <3>1 DEF IInv, TypeOK, ExactRun, Run
    <3>2. CASE s # r
      <4>1. run'[s] = run[s]
        BY <2>2, <3>2 DEF IInv, TypeOK
      <4>2. s \in Archived(branch') => s \in Archived(branch)
        BY <2>1, <3>2 DEF Archived
      <4>. QED BY <2>1, <4>1, <4>2 DEF Exact, ExactRun
    <3>. QED BY <3>1, <3>2
  <2>. QED BY <1>1, <2>3 DEF Exact
<1>15. ASSUME Tick \/ UNCHANGED vars \/ \E e \in Replayed : Dispatch(e) PROVE Exact'
  BY <1>1, <1>15 DEF Tick, vars, Dispatch, Exact
<1>16. /\ \A l \in late : ~Land(l)
       /\ \A r \in Roots : ~WriteDelayed(r)
  BY FS_EmptySet DEF Exact, WriteDelayed
<1>. QED
  BY <1>4, <1>5, <1>6, <1>7, <1>11, <1>12, <1>13, <1>14, <1>15, <1>16
     DEF Next, ArchiveStep, RunStep

\* What is attested is what is archived, bit for bit, if no update lands late.
THEOREM AttestedIsArchivedHolds == ASSUME MaxLate = 0 PROVE Spec => []AttestedIsArchived
<1>1. Init => Exact
  BY DEF Init, Exact, ExactRun, NoRun, Ready
<1>2. IInv /\ Exact /\ [Next]_vars => Exact'
  BY NextExact
<1>3. Exact => AttestedIsArchived
  BY DEF Exact, ExactRun, AttestedIsArchived, RunDoc, Ready
<1>. QED BY <1>1, <1>2, <1>3, Inductive, PTL DEF Spec

-----------------------------------------------------------------------------
(* Publishers *)

\* A call that has begun is for an envelope somebody dispatches, and its verdict
\* is for a root whose place exists.
CallOK(tree, c) ==
    /\ c = NoCall \/ c \in [stage: CallStages, env: Replayed]
    /\ c.stage \in {"refused", "post", "accepted"} =>
         Previous[c.env.root] \in Archived(tree) \cup {None}

CallsOK == call \in [Publishers -> Calls] /\ \A p \in Publishers : CallOK(branch, call[p])

\* To the archive, a publisher dispatches an envelope or does nothing.
LEMMA PublisherDispatches ==
    ASSUME CallsOK, NEW p \in Publishers, PublisherStep(p)
    PROVE  [Next]_vars
<1>1. CASE Post(p)
  <2>1. call[p].env \in Replayed
    BY <1>1 DEF Post, CallsOK, CallOK, NoCall
  <2>. QED BY <1>1, <2>1 DEF Post, Next
<1>2. CASE UNCHANGED vars
  BY <1>2
<1>. QED BY <1>1, <1>2 DEF PublisherStep, Publish, ReadRoot, ReadHead, ReadPredecessor, Abort

LEMMA PublisherStepIsArchiveStep ==
    ASSUME CallsOK, [PublisherNext]_publisherVars
    PROVE  [Next]_vars
BY PublisherDispatches DEF PublisherNext, publisherVars

\* What is archived stays archived, and so does what a verdict rests on.
LEMMA ArchivedKept ==
    ASSUME IInv, [Next]_vars
    PROVE  Archived(branch) \subseteq Archived(branch')
BY BranchKept DEF Kept, Archived

LEMMA CallKept ==
    ASSUME IInv, [Next]_vars, NEW c, CallOK(branch, c)
    PROVE  CallOK(branch', c)
BY ArchivedKept DEF CallOK

\* The branch may move on, and one call with it.
LEMMA CallsMove ==
    ASSUME IInv, CallsOK, [Next]_vars, NEW p \in Publishers,
           NEW stage \in CallStages, NEW e \in Replayed,
           call' = [call EXCEPT ![p] = [stage |-> stage, env |-> e]],
           stage \in {"refused", "post", "accepted"} =>
               Previous[e.root] \in Archived(branch) \cup {None}
    PROVE  CallsOK'
<1> DEFINE c == [stage |-> stage, env |-> e]
<1>1. c \in Calls /\ c \in [stage: CallStages, env: Replayed]
  BY ReplayedAssumption DEF Calls
<1>2. CallOK(branch, c)
  BY <1>1 DEF CallOK
<1>3. call' = [call EXCEPT ![p] = c]
  OBVIOUS
<1> HIDE DEF c
<1>4. call' \in [Publishers -> Calls]
  BY <1>1, <1>3 DEF CallsOK
<1>5. ASSUME NEW q \in Publishers PROVE CallOK(branch', call'[q])
  <2>1. call'[q] = IF q = p THEN c ELSE call[q]
    BY <1>3 DEF CallsOK
  <2>2. CallOK(branch, call'[q])
    BY <1>2, <2>1 DEF CallsOK
  <2>. QED BY <2>2, CallKept
<1>. QED BY <1>4, <1>5 DEF CallsOK

LEMMA NextCallsOK ==
    ASSUME IInv, CallsOK, [PublisherNext]_publisherVars
    PROVE  CallsOK'
<1>1. [Next]_vars
  BY PublisherStepIsArchiveStep
<1>2. CASE UNCHANGED call
  BY <1>1, <1>2, CallKept DEF CallsOK
<1>3. ASSUME NEW p \in Publishers, PublisherStep(p) PROVE CallsOK'
  <2> DEFINE e == call[p].env
  <2> DEFINE Placed == Previous[e.root] \in Archived(branch) \cup {None}
  <2>1. call[p].stage # "none" => e \in Replayed
    BY DEF CallsOK, CallOK, NoCall
  <2>2. ASSUME call[p].stage # "none", NEW stage \in CallStages, To(p, stage),
               stage \in {"refused", "post", "accepted"} => Placed
        PROVE  CallsOK'
    BY <1>1, <2>1, <2>2, CallsMove DEF To
  <2>3. ASSUME NEW r \in Archived(branch) PROVE Previous[r] \in Archived(branch) \cup {None}
    BY <2>3 DEF IInv, Linked, Archived, DocPrevious
  <2>4. CASE \E d \in Replayed : Publish(p, d)
    <3>1. PICK d \in Replayed : Publish(p, d)
      BY <2>4
    <3>2. PICK stage \in {"root", "expired"} :
              call' = [call EXCEPT ![p] = [stage |-> stage, env |-> d]]
      BY <3>1 DEF Publish
    <3>. QED BY <1>1, <3>2, CallsMove DEF CallStages
  <2>5. CASE ReadRoot(p)
    <3>1. Holds(branch, e) => e.root \in Archived(branch)
      BY DEF Holds, Archived
    <3>2. PICK stage \in {"post", "refused", "head"} :
              To(p, stage) /\ (stage # "head" => e.root \in Archived(branch))
      BY <2>5, <3>1 DEF ReadRoot
    <3>. QED BY <2>2, <2>3, <2>5, <3>2 DEF ReadRoot, CallStages
  <2>6. CASE ReadHead(p)
    <3>1. branch.head \in Archived(branch) \cup {None}
      BY DEF IInv, Linked
    <3>2. PICK stage \in {"post", "refused", "retryable", "predecessor"} :
              To(p, stage) /\ (stage \in {"post", "refused"} => Placed)
      BY <2>6, <3>1 DEF ReadHead
    <3>. QED BY <2>2, <2>6, <3>2 DEF ReadHead, CallStages
  <2>7. CASE ReadPredecessor(p)
    <3>1. PICK stage \in {"refused", "retryable"} : To(p, stage) /\ (stage = "refused" => Placed)
      BY <2>7 DEF ReadPredecessor
    <3>. QED BY <2>2, <2>7, <3>1 DEF ReadPredecessor, CallStages
  <2>8. CASE Post(p)
    <3>1. Placed
      BY <2>8 DEF Post, CallsOK, CallOK
    <3>. QED BY <2>2, <2>8, <3>1 DEF Post, CallStages
  <2>9. CASE Abort(p)
    BY <2>2, <2>9 DEF Abort, Calling, CallStages
  <2>. QED BY <1>3, <2>4, <2>5, <2>6, <2>7, <2>8, <2>9 DEF PublisherStep
<1>. QED BY <1>2, <1>3 DEF PublisherNext, publisherVars

LEMMA PublisherInductive == PublisherSpec => [](IInv /\ CallsOK)
<1>1. PublisherInit => IInv /\ CallsOK
  BY InitIInv DEF PublisherInit, CallsOK, CallOK, Calls, NoCall
<1>2. IInv /\ CallsOK /\ [PublisherNext]_publisherVars => (IInv /\ CallsOK)'
  BY NextIInv, NextCallsOK, PublisherStepIsArchiveStep
<1>. QED BY <1>1, <1>2, PTL DEF PublisherSpec

\* Publishers and the runs they start implement the archive: whatever is proved
\* of the branch and its runs above holds with them.
THEOREM PublisherImplementsArchive == PublisherSpec => Spec
<1>1. PublisherInit => Init
  BY DEF PublisherInit
<1>2. CallsOK /\ [PublisherNext]_publisherVars => [Next]_vars
  BY PublisherStepIsArchiveStep
<1>. QED BY <1>1, <1>2, PublisherInductive, PTL DEF PublisherSpec, Spec

\* A publisher refuses a root for good, or dispatches it, only once its
\* predecessor is archived, however the branch moves between its reads.
THEOREM VerdictIsNotEarlyHolds == PublisherSpec => []VerdictIsNotEarly
<1>1. CallsOK => VerdictIsNotEarly
  BY DEF CallsOK, CallOK, VerdictIsNotEarly
<1>. QED BY <1>1, PublisherInductive, PTL

\* Publishers change nothing about it: without late updates, what is attested
\* is what is archived.
THEOREM PublisherAttestsArchived ==
    ASSUME MaxLate = 0 PROVE PublisherSpec => []AttestedIsArchived
BY PublisherImplementsArchive, AttestedIsArchivedHolds
=============================================================================
