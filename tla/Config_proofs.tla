----------------------------- MODULE Config_proofs -----------------------------
(***************************************************************************)
(* Proofs about Config, for every input, whatever its paths and however    *)
(* many targets and mounts it has: what validation has let through, joined *)
(* with what Push does to a path and to the base, is enough for every      *)
(* property of the command line.                                           *)
(***************************************************************************)
EXTENDS Config, FiniteSetTheorems, SequenceTheorems, TLAPS

USE DEF vars

\* What the user has given by the time that there are targets.
Given ==
  \/ input.from = "args" /\ base = Abs(Cwd)
  \/ input.from = "file" /\ base = Parent(input.path) /\ input.path \in Path

\* The targets of Vmtest, and those that validation let through.
Typed == base \in Path /\ targets \in Seq(Target)
Valid == \A i \in DOMAIN targets : ValidTarget(targets[i])

\* What was set up for the current target.
SetUpRight == \/ qemu = {}
              \/ /\ idx \in DOMAIN targets /\ InitPossible
                 /\ qemu = {Invocation(Resolved(targets[idx]))}

IInv == /\ input \in Inputs /\ Typed
        /\ pc \in {"start", "validate", "run"} \cup Ends /\ idx \in 0..Len(targets)
        /\ pc \in {"validate", "run", "done"} => Given
        /\ pc \in {"run", "done"} => Valid
        /\ pc \notin {"run", "done"} => idx = 0 /\ qemu = {}
        /\ SetUpRight
        /\ ValidationPreventsPanic

-----------------------------------------------------------------------------
(***************************************************************************)
(* Facts about paths.                                                      *)
(***************************************************************************)
\* The fields of a path.
LEMMA PathFields ==
  ASSUME NEW p \in Path
  PROVE  /\ p.abs \in BOOLEAN /\ p.parts \in Seq(Names)
         /\ p = [abs |-> p.abs, parts |-> p.parts]
BY DEF Path

LEMMA PathMade ==
  ASSUME NEW a \in BOOLEAN, NEW s \in Seq(Names)
  PROVE  [abs |-> a, parts |-> s] \in Path
BY DEF Path

\* Joining paths.
LEMMA Joined ==
  ASSUME NEW s \in Seq(Names), NEW t \in Seq(Names), NEW u \in Seq(Names)
  PROVE  (s \o t) \o u = s \o (t \o u)
BY ConcatAssociative

LEMMA JoinedParts ==
  ASSUME NEW s \in Seq(Names), NEW t \in Seq(Names)
  PROVE  s \o t \in Seq(Names) /\ (t # <<>> => s \o t # <<>>)
<1>1. s \o t \in Seq(Names) /\ Len(s \o t) = Len(s) + Len(t)
  BY ConcatProperties
<1>2. Len(s) \in Nat /\ Len(t) \in Nat /\ (t # <<>> => Len(t) # 0) /\ Len(<<>>) = 0
  BY LenProperties, EmptySeq
<1>3. QED
  BY <1>1, <1>2

\* Root and Empty are paths, and Dot is none.
LEMMA SpecialPaths == Root \in Path /\ Empty \in Path /\ Dot \notin Path
<1>1. <<>> \in Seq(Names)
  BY EmptySeq
<1>2. Root \in Path /\ Empty \in Path
  BY <1>1, PathMade DEF Root, Empty, Abs, Rel
<1>3. ASSUME Dot \in Path
      PROVE  FALSE
  <2>1. Dot.parts \in Seq(Names) /\ Dot.parts = <<".">>
    BY <1>3, PathFields DEF Dot, Rel
  <2>2. PICK s \in Seq(Names) : s = <<".">>
    BY <2>1
  <2>3. Len(s) = 1 /\ s[1] = "."
    BY <2>2
  <2>4. s[1] \in Names
    BY <2>2, <2>3, ElementOfSeq
  <2>5. QED
    BY <2>3, <2>4, NamesAssumption
<1>4. QED
  BY <1>2, <1>3

\* What Push and Parent make of paths.
LEMMA PushProperties ==
  ASSUME NEW dir \in Path, NEW p \in Path
  PROVE  /\ Push(dir, p) \in Path
         /\ p.abs => Push(dir, p) = p
         /\ ~p.abs => /\ Push(dir, p).abs = dir.abs
                      /\ Push(dir, p).parts = dir.parts \o p.parts
         /\ p # Empty => Push(dir, p) # Empty
<1>1. /\ dir.abs \in BOOLEAN /\ dir.parts \in Seq(Names)
      /\ dir = [abs |-> dir.abs, parts |-> dir.parts]
      /\ p.abs \in BOOLEAN /\ p.parts \in Seq(Names)
      /\ p = [abs |-> p.abs, parts |-> p.parts]
  BY PathFields
<1>2. p.abs => Push(dir, p) = p
  BY DEF Push
<1>3. ASSUME ~p.abs
      PROVE  Push(dir, p) = [abs |-> dir.abs, parts |-> dir.parts \o p.parts]
  BY <1>1, <1>3 DEF Push
<1> DEFINE c == dir.parts \o p.parts
<1>4. c \in Seq(Names) /\ (p.parts # <<>> => c # <<>>)
  BY ONLY <1>1, JoinedParts
<1> HIDE DEF c
<1>7. [abs |-> dir.abs, parts |-> c] \in Path
  BY <1>1, <1>4, PathMade
<1>8. CASE p.abs
  <2>1. Push(dir, p) = p
    BY <1>2, <1>8
  <2>2. QED
    BY <1>8, <2>1
<1>9. CASE ~p.abs
  <2>1. Push(dir, p) = [abs |-> dir.abs, parts |-> c]
    BY <1>3, <1>9 DEF c
  <2>2. p # Empty => p.parts # <<>>
    BY <1>1, <1>9 DEF Empty, Rel
  <2>3. p # Empty => Push(dir, p) # Empty
    BY <1>4, <2>1, <2>2 DEF Empty, Rel
  <2>4. Push(dir, p).abs = dir.abs /\ Push(dir, p).parts = c
    BY <2>1
  <2>5. QED
    BY <1>7, <1>9, <2>1, <2>3, <2>4 DEF c
<1>10. QED
  BY <1>1, <1>8, <1>9

LEMMA ParentProperties ==
  ASSUME NEW p \in Path
  PROVE  Parent(p) \in Path /\ Parent(p).abs = p.abs
<1> DEFINE s == SubSeq(p.parts, 1, Len(p.parts) - 1)
<1>1. p.abs \in BOOLEAN /\ p.parts \in Seq(Names) /\ p = [abs |-> p.abs, parts |-> p.parts]
  BY PathFields
<1>2. Parent(p) = [abs |-> p.abs, parts |-> s]
  BY <1>1 DEF Parent
<1>3. s \in Seq(Names)
  <2>1. Len(p.parts) \in Nat /\ \A i \in 1..Len(p.parts) : p.parts[i] \in Names
    BY <1>1, LenProperties
  <2>2. Len(p.parts) - 1 \in Int /\ \A i \in 1..Len(p.parts)-1 : p.parts[i] \in Names
    BY <2>1
  <2>3. QED
    BY <2>2, SubSeqProperties
<1> HIDE DEF s
<1>4. QED
  BY <1>1, <1>2, <1>3, PathMade

\* Where a path without dots leads.
LEMMA WhereIs ==
  ASSUME NEW p \in Path
  PROVE  /\ Where(p) = IF p.abs THEN p.parts ELSE Cwd \o p.parts
         /\ p # Empty => Locate(p) = Where(p)
BY SpecialPaths DEF Where, Locate

LEMMA EmptyLeadsNowhere == Where(Empty) = Cwd
<1>1. Where(Empty) = Cwd \o <<>>
  BY SpecialPaths, WhereIs DEF Empty, Rel
<1>2. Cwd \in Seq(Names)
  BY HostAssumption
<1>3. QED
  BY <1>1, <1>2, ConcatEmptySeq

-----------------------------------------------------------------------------
(***************************************************************************)
(* A path of the config leads, from the base, to what is documented.       *)
(***************************************************************************)
LEMMA BaseLocated ==
  ASSUME IInv, Given
  PROVE  base \in Path /\ Where(base) = ConfigDir
<1>1. base \in Path
  BY DEF IInv, Typed
<1>2. CASE input.from = "args" /\ base = Abs(Cwd)
  BY <1>1, <1>2, WhereIs DEF ConfigDir, Abs
<1>3. CASE input.from = "file" /\ base = Parent(input.path)
  BY <1>1, <1>3 DEF ConfigDir
<1>4. QED
  BY <1>2, <1>3 DEF Given

LEMMA ResolveLocated ==
  ASSUME IInv, Given, NEW p \in Path
  PROVE  /\ Resolve(p) \in Path
         /\ Where(Resolve(p)) = Documented(p)
         /\ p # Empty => Resolve(p) # Empty /\ Locate(Resolve(p)) = Documented(p)
         /\ Locate(ExportPath(Resolve(p))) = Documented(p)
<1>1. base \in Path /\ Where(base) = ConfigDir
  BY BaseLocated
<1>2. /\ Resolve(p) \in Path
      /\ p.abs => Resolve(p) = p
      /\ ~p.abs => Resolve(p).abs = base.abs /\ Resolve(p).parts = base.parts \o p.parts
      /\ p # Empty => Resolve(p) # Empty
  BY <1>1, PushProperties DEF Resolve
<1>3. Where(base) = IF base.abs THEN base.parts ELSE Cwd \o base.parts
  BY <1>1, WhereIs
<1>4. Where(Resolve(p)) = IF Resolve(p).abs THEN Resolve(p).parts ELSE Cwd \o Resolve(p).parts
  BY <1>2, WhereIs
<1>5. Where(Resolve(p)) = Documented(p)
  <2>1. CASE p.abs
    BY <1>2, <1>4, <2>1 DEF Documented
  <2>2. CASE ~p.abs /\ base.abs
    BY <1>1, <1>2, <1>3, <1>4, <2>2 DEF Documented
  <2>3. CASE ~p.abs /\ ~base.abs
    <3>1. Where(Resolve(p)) = Cwd \o (base.parts \o p.parts)
      BY <1>2, <1>4, <2>3
    <3>2. Documented(p) = (Cwd \o base.parts) \o p.parts
      BY <1>1, <1>3, <2>3 DEF Documented
    <3>3. Cwd \in Seq(Names) /\ base.parts \in Seq(Names) /\ p.parts \in Seq(Names)
      BY <1>1, HostAssumption, PathFields
    <3>4. (Cwd \o base.parts) \o p.parts = Cwd \o (base.parts \o p.parts)
      BY ONLY <3>3, Joined
    <3>5. QED
      BY <3>1, <3>2, <3>4
  <2>4. QED
    BY <2>1, <2>2, <2>3
<1>6. p # Empty => Resolve(p) # Empty /\ Locate(Resolve(p)) = Documented(p)
  BY <1>2, <1>5, WhereIs
<1>7. Locate(ExportPath(Resolve(p))) = Documented(p)
  <2>1. CASE Resolve(p) # Empty
    BY <1>2, <1>5, <2>1, WhereIs DEF ExportPath
  <2>2. CASE Resolve(p) = Empty
    <3>1. Locate(ExportPath(Resolve(p))) = Cwd
      BY <2>2 DEF ExportPath, Locate, Where, Dot, Empty, Rel
    <3>2. QED
      BY <1>5, <2>2, <3>1, EmptyLeadsNowhere
  <2>3. QED
    BY <2>1, <2>2
<1>8. QED
  BY <1>2, <1>5, <1>6, <1>7

-----------------------------------------------------------------------------
(***************************************************************************)
(* What main.rs makes of the input.                                        *)
(***************************************************************************)
LEMMA OneLinerTyped ==
  ASSUME NEW a \in Args, a.kernel.parts # <<>>
  PROVE  OneLiner(a) \in Target
<1>1. /\ a.kernel \in Path /\ a.kargs \in Option(STRING) /\ a.rootfs \in Path
      /\ a.command \in STRING
  BY DEF Args
<1>2. a.kernel.parts[Len(a.kernel.parts)] \in STRING
  <2>1. PICK s \in Seq(Names) : s = a.kernel.parts
    BY <1>1, PathFields
  <2>2. Len(s) \in 1..Len(s)
    BY <2>1, LenProperties, EmptySeq
  <2>3. s[Len(s)] \in Names
    BY <2>2, ElementOfSeq
  <2>4. QED
    BY <2>1, <2>3, NamesAssumption
<1>3. {} \in Option(Path) /\ {a.kernel} \in Option(Path)
  BY <1>1 DEF Option
<1>4. QED
  BY <1>1, <1>2, <1>3 DEF OneLiner, Target

LEMMA FileTyped ==
  ASSUME NEW f \in File, NEW pick \in InOrder(Retained(f))
  PROVE  [k \in DOMAIN pick |-> f.targets[pick[k]]] \in Seq(Target)
<1>1. f.targets \in Seq(Target)
  BY DEF File
<1>2. Len(f.targets) \in Nat /\ DOMAIN f.targets = 1..Len(f.targets)
  BY <1>1, LenProperties
<1>3. Cardinality(Retained(f)) \in Nat
  <2>1. IsFiniteSet(DOMAIN f.targets)
    BY <1>2, FS_Interval
  <2>2. QED
    BY <2>1, FS_Subset, FS_CardinalityType DEF Retained
<1>4. pick \in [1..Cardinality(Retained(f)) -> Retained(f)]
  BY DEF InOrder
<1>5. \A i \in Retained(f) : f.targets[i] \in Target
  BY <1>1, <1>2, ElementOfSeq DEF Retained
<1>6. QED
  BY <1>3, <1>4, <1>5

-----------------------------------------------------------------------------
(***************************************************************************)
(* The invariant.                                                          *)
(***************************************************************************)
LEMMA InitIInv == Init => IInv
<1> SUFFICES ASSUME Init
             PROVE  IInv
  OBVIOUS
<1>1. /\ pc = "start" /\ input \in Inputs /\ base = Empty /\ targets = <<>>
      /\ idx = 0 /\ qemu = {}
  BY DEF Init
<1>2. Typed
  BY <1>1, SpecialPaths, EmptySeq DEF Typed
<1>3. Len(targets) = 0
  BY <1>1
<1>4. QED
  BY <1>1, <1>2, <1>3 DEF IInv, SetUpRight, ValidationPreventsPanic

\* Before anything is set up there is no Qemu.
LEMMA BeforeSetUp ==
  ASSUME IInv, pc \notin {"run", "done"}
  PROVE  idx = 0 /\ qemu = {} /\ input \in Inputs /\ Typed
BY DEF IInv

LEMMA NextIInv == IInv /\ [Next]_vars => IInv'
<1> SUFFICES ASSUME IInv, [Next]_vars
             PROVE  IInv'
  OBVIOUS
<1>1. CASE FromArgs
  <2>1. /\ pc = "start" /\ input.from = "args" /\ UNCHANGED <<input, idx, qemu>>
    BY <1>1 DEF FromArgs
  <2>2. idx = 0 /\ qemu = {} /\ input \in Inputs /\ Typed
    BY <2>1, BeforeSetUp
  <2>3. CASE input.kernel.parts # <<>> /\ pc' = "validate" /\ base' = Abs(Cwd)
               /\ targets' = <<OneLiner(input)>>
    <3>1. input \in Args
      BY <2>1, <2>2, InputsAssumption DEF File
    <3>2. targets' \in Seq(Target) /\ Len(targets') = 1
      BY <2>3, <3>1, OneLinerTyped
    <3>3. base' \in Path
      BY <2>3, HostAssumption, PathMade DEF Abs
    <3>4. Given'
      BY <2>1, <2>3 DEF Given
    <3>5. QED
      BY <2>1, <2>2, <2>3, <3>2, <3>3, <3>4
         DEF IInv, Typed, SetUpRight, ValidationPreventsPanic
  <2>4. CASE input.kernel.parts = <<>> /\ pc' = "panicked" /\ UNCHANGED <<base, targets>>
    <3>1. idx' \in 0..Len(targets')
      BY <2>1, <2>4 DEF IInv
    <3>2. QED
      BY <2>1, <2>2, <2>4, <3>1 DEF IInv, Typed, SetUpRight, ValidationPreventsPanic, Ends
  <2>5. QED
    BY <1>1, <2>3, <2>4 DEF FromArgs
<1>2. CASE FromFile
  <2>1. /\ pc = "start" /\ input.from = "file" /\ UNCHANGED <<input, idx, qemu>>
    BY <1>2 DEF FromFile
  <2>2. idx = 0 /\ qemu = {} /\ input \in Inputs /\ Typed
    BY <2>1, BeforeSetUp
  <2>3. CASE /\ pc' = "validate" /\ base' = Parent(input.path)
             /\ \E pick \in InOrder(Retained(input)) :
                  targets' = [k \in DOMAIN pick |-> input.targets[pick[k]]]
    <3>1. input \in File
      BY <2>1, <2>2, InputsAssumption DEF Args
    <3>2. targets' \in Seq(Target)
      BY <2>3, <3>1, FileTyped
    <3>3. Len(targets') \in Nat
      BY <3>2, LenProperties
    <3>4. input.path \in Path
      BY <3>1 DEF File
    <3>5. base' \in Path
      BY <2>3, <3>4, ParentProperties
    <3>6. Given'
      <4>1. Parent(input.path)' = Parent(input.path)
        BY <2>1 DEF Parent
      <4>2. QED
        BY <2>1, <2>3, <3>4, <4>1 DEF Given
    <3>7. QED
      BY <2>1, <2>2, <2>3, <3>2, <3>3, <3>5, <3>6
         DEF IInv, Typed, SetUpRight, ValidationPreventsPanic
  <2>4. CASE pc' = "unreadable" /\ UNCHANGED <<base, targets>>
    <3>1. idx' \in 0..Len(targets')
      BY <2>1, <2>4 DEF IInv
    <3>2. QED
      BY <2>1, <2>2, <2>4, <3>1 DEF IInv, Typed, SetUpRight, ValidationPreventsPanic, Ends
  <2>5. QED
    BY <1>2, <2>3, <2>4 DEF FromFile
<1>3. CASE Validate
  <2>1. /\ pc = "validate" /\ UNCHANGED <<input, base, targets, idx, qemu>>
        /\ pc' = IF Valid THEN "run" ELSE "rejected"
    BY <1>3 DEF Validate, Valid
  <2>2. idx = 0 /\ qemu = {} /\ input \in Inputs /\ Typed
    BY <2>1, BeforeSetUp
  <2>3. Given' /\ Valid' = Valid
    <3>1. Given
      BY <2>1 DEF IInv
    <3>2. Given' = Given /\ Valid' = Valid
      BY <2>1 DEF Given, Valid
    <3>3. QED
      BY <3>1, <3>2
  <2>4. idx' \in 0..Len(targets')
    BY <2>1 DEF IInv
  <2>5. QED
    BY <2>1, <2>2, <2>3, <2>4 DEF IInv, Typed, SetUpRight, ValidationPreventsPanic, Ends
<1>4. CASE SetUp
  <2>1. /\ pc = "run" /\ idx < Len(targets) /\ idx' = idx + 1
        /\ UNCHANGED <<input, base, targets>>
    BY <1>4 DEF SetUp, MoreTargets
  <2>2. /\ input \in Inputs /\ Typed /\ Given /\ Valid /\ idx \in 0..Len(targets)
    BY <2>1 DEF IInv
  <2>3. idx' \in 1..Len(targets) /\ DOMAIN targets = 1..Len(targets)
    BY <2>1, <2>2, LenProperties DEF Typed
  <2>4. Given' /\ Valid' /\ Typed'
    <3>1. Given' = Given /\ Valid' = Valid /\ Typed' = Typed
      BY <2>1 DEF Given, Valid, Typed
    <3>2. QED
      BY <2>2, <3>1
  <2>5. CASE qemu' = {} /\ UNCHANGED pc
    BY <2>1, <2>2, <2>3, <2>4, <2>5 DEF IInv, SetUpRight, ValidationPreventsPanic
  <2>6. CASE /\ idx' \in DOMAIN targets /\ InitPossible
             /\ LET t == Resolved(targets[idx'])
                IN  IF t.image \cup t.kernel # {}
                      THEN qemu' = {Invocation(t)} /\ UNCHANGED pc
                      ELSE pc' = "panicked" /\ UNCHANGED qemu
    <3> DEFINE u == targets[idx']
    <3>1. u \in Target /\ ValidTarget(u)
      BY <2>2, <2>3, ElementOfSeq DEF Typed, Valid
    <3>2. Resolved(u).image \cup Resolved(u).kernel # {}
      <4> HIDE DEF u
      <4>1. /\ Resolved(u).image = {Resolve(p) : p \in u.image}
            /\ Resolved(u).kernel = {Resolve(p) : p \in u.kernel}
        BY <3>1 DEF Target, Resolved
      <4>2. u.image # {} \/ u.kernel # {}
        BY <3>1 DEF ValidTarget
      <4>3. QED
        BY <4>1, <4>2
    <3>3. qemu' = {Invocation(Resolved(u))} /\ UNCHANGED pc
      BY <2>6, <3>2
    <3>4. Invocation(Resolved(targets[idx]))' = Invocation(Resolved(u))
      BY <2>1 DEF Invocation, Resolved, ResolveMount, Resolve
    <3>5. SetUpRight'
      <4>1. idx' \in DOMAIN targets' /\ InitPossible
        BY <2>1, <2>6
      <4>2. InitPossible' = InitPossible
        BY DEF InitPossible
      <4>3. QED
        BY <3>3, <3>4, <4>1, <4>2 DEF SetUpRight
    <3>6. QED
      BY <2>1, <2>2, <2>3, <2>4, <3>3, <3>5 DEF IInv, ValidationPreventsPanic
  <2>7. QED
    BY <1>4, <2>5, <2>6 DEF SetUp
<1>5. CASE Finish \/ UNCHANGED vars
  <2>1. /\ UNCHANGED <<input, base, targets, idx, qemu>>
        /\ pc' = pc \/ (pc = "run" /\ pc' = "done")
    BY <1>5 DEF Finish
  <2>2. Given' = Given /\ Valid' = Valid /\ Typed' = Typed
    BY <2>1 DEF Given, Valid, Typed
  <2>3. SetUpRight' = SetUpRight
    <3>1. Invocation(Resolved(targets[idx]))' = Invocation(Resolved(targets[idx]))
      BY <2>1 DEF Invocation, Resolved, ResolveMount, Resolve
    <3>2. QED
      BY <2>1, <3>1 DEF SetUpRight, InitPossible
  <2>4. ValidationPreventsPanic'
    BY <2>1 DEF IInv, ValidationPreventsPanic
  <2>5. QED
    BY <2>1, <2>2, <2>3, <2>4 DEF IInv, Ends
<1>6. QED
  BY <1>1, <1>2, <1>3, <1>4, <1>5 DEF Next, Stopped

LEMMA Inductive == Spec => []IInv
BY InitIInv, NextIInv, PTL DEF Spec

-----------------------------------------------------------------------------
(***************************************************************************)
(* What was set up, from what the user wrote.                              *)
(***************************************************************************)
LEMMA ResolvedFields ==
  ASSUME NEW t \in Target
  PROVE  /\ Resolved(t).image = {Resolve(p) : p \in t.image}
         /\ Resolved(t).kernel = {Resolve(p) : p \in t.kernel}
         /\ Resolved(t).bios = {Resolve(p) : p \in t.bios}
         /\ Resolved(t).rootfs = Resolve(t.rootfs)
         /\ Resolved(t).mounts = {ResolveMount(m) : m \in t.mounts}
         /\ Resolved(t).uefi = t.uefi /\ Resolved(t).kargs = t.kargs
         /\ Resolved(t).command = t.command
BY DEF Target, Resolved

LEMMA TargetFields ==
  ASSUME NEW t \in Target
  PROVE  /\ t.image \subseteq Path /\ t.kernel \subseteq Path /\ t.bios \subseteq Path
         /\ t.rootfs \in Path /\ t.uefi \in BOOLEAN
         /\ \A m \in t.mounts : m \in Mount /\ m.host \in Path
BY DEF Target, Mount, Option

\* The current target was validated, and it is the one that runs.
LEMMA CurrentProperties ==
  ASSUME IInv, NEW q \in qemu
  PROVE  /\ Given /\ InitPossible
         /\ Current \in Target /\ ValidTarget(Current)
         /\ q = Invocation(Resolved(Current))
<1>1. pc \in {"run", "done"} /\ Typed
  BY DEF IInv
<1>2. Given /\ Valid
  BY <1>1 DEF IInv
<1>3. idx \in DOMAIN targets /\ InitPossible /\ q = Invocation(Resolved(targets[idx]))
  BY DEF IInv, SetUpRight
<1>4. targets[idx] \in Target /\ ValidTarget(targets[idx])
  BY <1>1, <1>2, <1>3, ElementOfSeq, LenProperties DEF Typed, Valid
<1>5. QED
  BY <1>2, <1>3, <1>4 DEF Current

\* Resolved paths lead to what is documented.
LEMMA SomeLocated ==
  ASSUME IInv, Given, NEW paths \in SUBSET Path, Empty \notin paths
  PROVE  {Locate(p) : p \in {Resolve(r) : r \in paths}} = {Documented(p) : p \in paths}
<1>1. \A p \in paths : Locate(Resolve(p)) = Documented(p)
  BY ResolveLocated
<1>2. QED
  BY <1>1

-----------------------------------------------------------------------------
(***************************************************************************)
(* The theorems.                                                           *)
(***************************************************************************)
\* The state of the configuration has the types that the code gives it, and the
\* index stays within the targets.
THEOREM TypeCorrect == Spec => []TypeOK
<1>1. IInv => TypeOK
  <2> SUFFICES ASSUME IInv
               PROVE  TypeOK
    OBVIOUS
  <2>1. base.abs \in BOOLEAN
    BY PathFields DEF IInv, Typed
  <2>2. ASSUME qemu # {}
        PROVE  \E q \in {The(qemu)} : qemu = {q} /\ q.interactive \in BOOLEAN
    <3> DEFINE inv == Invocation(Resolved(targets[idx]))
    <3>1. qemu = {inv}
      BY <2>2 DEF IInv, SetUpRight
    <3>2. inv.interactive = Interactive(Resolved(targets[idx]))
      BY DEF Invocation
    <3>3. inv.interactive \in BOOLEAN
      BY <3>2, Zenon DEF Interactive
    <3> HIDE DEF inv
    <3>4. The(qemu) = inv
      BY <3>1 DEF The
    <3>5. QED
      BY <3>1, <3>3, <3>4
  <2>3. QED
    BY <2>1, <2>2 DEF IInv, TypeOK
<1>2. QED
  BY <1>1, Inductive, PTL

\* No input that passed validation reaches the panic of Qemu::new.
THEOREM NoPanicOnceValid == Spec => []ValidationPreventsPanic
<1>1. IInv => ValidationPreventsPanic
  BY DEF IInv
<1>2. QED
  BY <1>1, Inductive, PTL

\* Of a target that validate_config accepted, Qemu::new uses every option that has
\* a condition there: image or kernel, uefi, bios, kernel arguments.  A rootfs is
\* exported if there is a kernel, and only then.
THEOREM OptionsAreUsed == Spec => []OptionsTakeEffect
<1>1. IInv => OptionsTakeEffect
  <2> SUFFICES ASSUME IInv, NEW q \in qemu
               PROVE  /\ (q.disk = {}) # (q.kernel = {})
                      /\ q.bios # {} <=> Current.uefi
                      /\ Current.bios # {} => q.bios = {Resolve(p) : p \in Current.bios}
                      /\ Current.kargs # {} => q.append = Current.kargs /\ q.kernel # {}
                      /\ (\E e \in q.exports : e.tag = <<"/dev/root">>)
                           <=> Current.kernel # {}
    BY DEF OptionsTakeEffect
  <2> DEFINE t == Current
             r == Resolved(t)
  <2>1. t \in Target /\ ValidTarget(t) /\ q = Invocation(r)
    BY CurrentProperties
  <2> HIDE DEF t
  <2>2. /\ r.image = {Resolve(p) : p \in t.image} /\ r.kernel = {Resolve(p) : p \in t.kernel}
        /\ r.bios = {Resolve(p) : p \in t.bios} /\ r.uefi = t.uefi /\ r.kargs = t.kargs
    BY <2>1, ResolvedFields
  <2> HIDE DEF r
  <2>3. /\ q.disk = r.image /\ q.kernel = r.kernel /\ q.append = r.kargs
        /\ q.bios = IF r.uefi THEN (IF r.bios # {} THEN r.bios ELSE {Ovmf}) ELSE {}
        /\ q.exports = {Export(<<"/dev/root">>, r.rootfs, FALSE) : k \in r.kernel}
                         \cup {Export(<<"vmtest-shared">>, base, FALSE)}
                         \cup {MountExport(m) : m \in r.mounts}
    BY <2>1 DEF Invocation
  <2>4. /\ (t.image = {}) # (t.kernel = {}) /\ (t.bios # {} => t.uefi)
        /\ (t.kargs # {} => t.kernel # {}) /\ t.uefi \in BOOLEAN
    BY <2>1 DEF ValidTarget, Target
  <2>5. (q.disk = {}) # (q.kernel = {})
    BY <2>2, <2>3, <2>4
  <2>6. q.bios # {} <=> t.uefi
    BY <2>2, <2>3, <2>4
  <2>7. t.bios # {} => q.bios = {Resolve(p) : p \in t.bios}
    BY <2>2, <2>3, <2>4
  <2>8. t.kargs # {} => q.append = t.kargs /\ q.kernel # {}
    BY <2>2, <2>3, <2>4
  <2>9. (\E e \in q.exports : e.tag = <<"/dev/root">>) <=> t.kernel # {}
    <3>1. ASSUME NEW e \in q.exports, e.tag = <<"/dev/root">>
          PROVE  t.kernel # {}
      <4>1. e \notin {Export(<<"vmtest-shared">>, base, FALSE)}
        BY <3>1 DEF Export
      <4>2. \A m : MountExport(m).tag # <<"/dev/root">>
        BY DEF MountExport, MountTag, Export
      <4>3. e \in {Export(<<"/dev/root">>, r.rootfs, FALSE) : k \in r.kernel}
        BY <2>3, <3>1, <4>1, <4>2
      <4>4. QED
        BY <2>2, <4>3
    <3>2. ASSUME t.kernel # {}
          PROVE  \E e \in q.exports : e.tag = <<"/dev/root">>
      <4>1. Export(<<"/dev/root">>, r.rootfs, FALSE) \in q.exports
        <5>1. PICK k0 \in r.kernel : TRUE
          BY <2>2, <3>2
        <5>2. Export(<<"/dev/root">>, r.rootfs, FALSE)
                \in {Export(<<"/dev/root">>, r.rootfs, FALSE) : k \in r.kernel}
          BY <5>1
        <5>3. QED
          BY <2>3, <5>2
      <4>2. Export(<<"/dev/root">>, r.rootfs, FALSE).tag = <<"/dev/root">>
        BY DEF Export
      <4>3. QED
        BY <4>1, <4>2
    <3>3. QED
      BY <3>1, <3>2
  <2>10. QED
    BY <2>5, <2>6, <2>7, <2>8, <2>9 DEF t
<1>2. QED
  BY <1>1, Inductive, PTL

\* Every path on the command line of QEMU leads where the author of the config
\* meant, whatever the base and the directory vmtest was started in.
THEOREM PathsAreRight == Spec => []PathsFromConfigDir
<1>1. IInv => PathsFromConfigDir
  <2> SUFFICES ASSUME IInv, NEW q \in qemu
               PROVE  /\ {Locate(p) : p \in q.disk \cup q.kernel}
                           = {Documented(p) : p \in Current.image \cup Current.kernel}
                      /\ \E e \in q.exports :
                           e.tag = <<"vmtest-shared">> /\ Locate(e.path) = ConfigDir
                      /\ \A e \in q.exports : e.tag = <<"/dev/root">> =>
                           Locate(e.path) = Documented(Current.rootfs)
    BY DEF PathsFromConfigDir
  <2> DEFINE t == Current
             r == Resolved(t)
  <2>1. Given /\ t \in Target /\ ValidTarget(t) /\ q = Invocation(r)
    BY CurrentProperties
  <2> HIDE DEF t
  <2>2. /\ r.image = {Resolve(p) : p \in t.image} /\ r.kernel = {Resolve(p) : p \in t.kernel}
        /\ r.rootfs = Resolve(t.rootfs)
    BY <2>1, ResolvedFields
  <2> HIDE DEF r
  <2>3. /\ q.disk = r.image /\ q.kernel = r.kernel
        /\ q.exports = {Export(<<"/dev/root">>, r.rootfs, FALSE) : k \in r.kernel}
                         \cup {Export(<<"vmtest-shared">>, base, FALSE)}
                         \cup {MountExport(m) : m \in r.mounts}
    BY <2>1 DEF Invocation
  <2>4. t.image \cup t.kernel \in SUBSET Path /\ Empty \notin t.image \cup t.kernel
        /\ t.rootfs \in Path
    BY <2>1, TargetFields DEF ValidTarget
  <2>5. {Locate(p) : p \in q.disk \cup q.kernel} = {Documented(p) : p \in t.image \cup t.kernel}
    <3>1. q.disk \cup q.kernel = {Resolve(p) : p \in t.image \cup t.kernel}
      BY <2>2, <2>3
    <3>2. QED
      BY <2>1, <2>4, <3>1, SomeLocated
  <2>6. \E e \in q.exports : e.tag = <<"vmtest-shared">> /\ Locate(e.path) = ConfigDir
    <3> DEFINE e == Export(<<"vmtest-shared">>, base, FALSE)
    <3>1. e \in q.exports
      BY <2>3
    <3>2. e.tag = <<"vmtest-shared">> /\ e.path = ExportPath(base)
      BY DEF Export
    <3>3. Locate(ExportPath(base)) = ConfigDir
      <4>1. base \in Path /\ Where(base) = ConfigDir
        BY <2>1, BaseLocated
      <4>2. CASE base # Empty
        BY <4>1, <4>2, WhereIs DEF ExportPath
      <4>3. CASE base = Empty
        <5>1. Locate(ExportPath(base)) = Cwd
          BY <4>3 DEF ExportPath, Locate, Where, Dot, Empty, Rel
        <5>2. Where(base) = Cwd
          BY <4>3, EmptyLeadsNowhere
        <5>3. QED
          BY <4>1, <5>1, <5>2
      <4>4. QED
        BY <4>2, <4>3
    <3>4. QED
      BY <3>1, <3>2, <3>3
  <2>7. ASSUME NEW e \in q.exports, e.tag = <<"/dev/root">>
        PROVE  Locate(e.path) = Documented(t.rootfs)
    <3>1. e \notin {Export(<<"vmtest-shared">>, base, FALSE)}
      BY <2>7 DEF Export
    <3>2. \A m : MountExport(m).tag # <<"/dev/root">>
      BY DEF MountExport, MountTag, Export
    <3>3. e = Export(<<"/dev/root">>, r.rootfs, FALSE)
      BY <2>3, <2>7, <3>1, <3>2
    <3>4. e.path = ExportPath(Resolve(t.rootfs))
      BY <2>2, <3>3 DEF Export
    <3>5. QED
      BY <2>1, <2>4, <3>4, ResolveLocated
  <2>8. QED
    BY <2>5, <2>6, <2>7 DEF t
<1>2. QED
  BY <1>1, Inductive, PTL

\* The script that the kernel is told to run is the one that was written.
THEOREM InitIsFound == Spec => []GuestInitIsHostInit
<1>1. IInv => GuestInitIsHostInit
  <2> SUFFICES ASSUME IInv, NEW q \in qemu, Current.rootfs # Empty, NEW i \in q.init
               PROVE  Documented(Current.rootfs) \o i.parts
                        = Locate(HostInit(Resolve(Current.rootfs)))
    BY DEF GuestInitIsHostInit
  <2> DEFINE f == Current.rootfs
             r == Resolve(f)
             script == <<"init">>
             h == r.parts \o TempDir.parts
  <2>1. Given /\ f \in Path /\ i = GuestInit(r) /\ TempDir.abs
    <3>1. /\ Given /\ InitPossible /\ Current \in Target
          /\ q = Invocation(Resolved(Current))
      BY CurrentProperties
    <3>2. Resolved(Current).rootfs = r
      BY <3>1, ResolvedFields
    <3>3. i = GuestInit(Resolved(Current).rootfs)
      BY <3>1 DEF Invocation
    <3>4. QED
      BY <3>1, <3>2, <3>3, TargetFields DEF InitPossible
  <2>2. r \in Path /\ Where(r) = Documented(f) /\ r # Empty
    BY <2>1, ResolveLocated
  <2> HIDE DEF f, r
  <2>3. /\ TempDir \in Path /\ r.parts \in Seq(Names) /\ TempDir.parts \in Seq(Names)
        /\ r.abs \in BOOLEAN /\ r = [abs |-> r.abs, parts |-> r.parts]
        /\ TempDir = [abs |-> TRUE, parts |-> TempDir.parts] /\ Cwd \in Seq(Names)
    BY <2>1, <2>2, HostAssumption, PathFields
  <2>4. script \in Seq(Names) /\ script # <<>>
    <3>1. "init" \in Names
      BY NamesAssumption
    <3>2. QED
      BY ONLY <3>1
  <2>5. i.parts = TempDir.parts \o script
    BY <2>1, <2>3 DEF GuestInit, Push, Rel
  <2> DEFINE s == Rel(script)
  <2>6. s \in Path /\ ~s.abs /\ s.parts = script /\ s # Empty
    <3> HIDE DEF script
    <3>1. QED
      BY <2>4, PathMade DEF Rel, Empty
  <2>7. HostInit(r) = Push(HostInitDir(r), s)
    BY DEF HostInit
  <2> HIDE DEF script, s
  <2>8. h \in Seq(Names)
    BY ONLY <2>3, JoinedParts
  <2>9. /\ HostInit(r) \in Path /\ HostInit(r) # Empty
        /\ HostInit(r).abs = r.abs /\ HostInit(r).parts = h \o script
    <3>1. HostInitDir(r) = [abs |-> r.abs, parts |-> h]
      BY <2>2, <2>3 DEF HostInitDir
    <3> HIDE DEF h
    <3>2. HostInitDir(r) \in Path
      BY ONLY <2>3, <2>8, <3>1, PathMade
    <3>3. HostInitDir(r).abs = r.abs /\ HostInitDir(r).parts = h
      BY ONLY <3>1
    <3> DEFINE d == HostInitDir(r)
    <3> HIDE DEF d
    <3>4. d \in Path /\ s \in Path /\ ~s.abs /\ s # Empty
      BY <2>6, <3>2 DEF d
    <3>5. /\ Push(d, s) \in Path /\ Push(d, s) # Empty
          /\ Push(d, s).abs = d.abs /\ Push(d, s).parts = d.parts \o s.parts
      BY ONLY <3>4, PushProperties
    <3>6. QED
      BY <2>6, <2>7, <3>3, <3>5 DEF d
  <2>10. Locate(HostInit(r)) = IF r.abs THEN h \o script ELSE Cwd \o (h \o script)
    BY <2>9, WhereIs
  <2>11. Documented(f) = IF r.abs THEN r.parts ELSE Cwd \o r.parts
    BY <2>2, WhereIs
  <2>12. h \o script = r.parts \o (TempDir.parts \o script)
    BY ONLY <2>3, <2>4, Joined
  <2>13. CASE r.abs
    BY <2>5, <2>10, <2>11, <2>12, <2>13 DEF f, r
  <2>14. CASE ~r.abs
    <3>1. PICK g \in Seq(Names) : g = TempDir.parts \o script
      BY ONLY <2>3, <2>4, JoinedParts
    <3>2. (Cwd \o r.parts) \o g = Cwd \o (r.parts \o g)
      BY ONLY <2>3, <3>1, Joined
    <3>3. QED
      BY <2>5, <2>10, <2>11, <2>12, <2>14, <3>1, <3>2 DEF f, r
  <2>15. QED
    BY <2>13, <2>14
<1>2. QED
  BY <1>1, Inductive, PTL

\* Every mount that the guest is asked for finds the export it was meant for.
THEOREM MountsAreFound == Spec => []MountsHaveExports
<1>1. IInv => MountsHaveExports
  <2> SUFFICES ASSUME IInv, NEW q \in qemu
               PROVE  /\ \A m \in q.mounts : \E e \in q.exports : e.tag = m.tag /\ e.ro = m.ro
                      /\ \A m \in Current.mounts : \E e \in q.exports, g \in q.mounts :
                           /\ g.at = m.at /\ g.tag = e.tag
                           /\ Locate(e.path) = Documented(m.host) /\ e.ro = ~m.writable
    BY DEF MountsHaveExports
  <2> DEFINE t == Current
             r == Resolved(t)
             Asked(m) == [tag |-> MountTag(m), at |-> m.at, ro |-> ~m.writable]
  <2>1. Given /\ t \in Target /\ q = Invocation(r)
    BY CurrentProperties
  <2> HIDE DEF t
  <2>2. r.mounts = {ResolveMount(m) : m \in t.mounts}
    BY <2>1, ResolvedFields
  <2> HIDE DEF r
  <2>3. /\ \A m \in r.mounts : MountExport(m) \in q.exports
        /\ q.mounts = {Asked(m) : m \in r.mounts}
    BY <2>1 DEF Invocation
  <2>4. \A m : /\ MountExport(m).tag = MountTag(m) /\ MountExport(m).ro = ~m.writable
               /\ MountExport(m).path = ExportPath(m.host)
    BY DEF MountExport, Export
  <2>5. \A m : /\ Asked(m).tag = MountTag(m) /\ Asked(m).at = m.at
               /\ Asked(m).ro = ~m.writable
    OBVIOUS
  <2> HIDE DEF Asked
  <2>6. ASSUME NEW m \in q.mounts
        PROVE  \E e \in q.exports : e.tag = m.tag /\ e.ro = m.ro
    <3>1. PICK n \in r.mounts : m = Asked(n)
      BY <2>3
    <3>2. MountExport(n) \in q.exports
      BY <2>3
    <3>3. QED
      BY <2>4, <2>5, <3>1, <3>2
  <2>7. ASSUME NEW m \in t.mounts
        PROVE  \E e \in q.exports, g \in q.mounts :
                 /\ g.at = m.at /\ g.tag = e.tag
                 /\ Locate(e.path) = Documented(m.host) /\ e.ro = ~m.writable
    <3> DEFINE n == ResolveMount(m)
    <3>1. m \in Mount /\ m.host \in Path
      BY <2>1, TargetFields
    <3>2. n.host = Resolve(m.host) /\ n.at = m.at /\ n.writable = m.writable
      BY <3>1 DEF ResolveMount, Mount
    <3>3. n \in r.mounts
      BY <2>2
    <3> HIDE DEF n
    <3>4. MountExport(n) \in q.exports /\ Asked(n) \in q.mounts
      BY <2>3, <3>3
    <3>5. Locate(MountExport(n).path) = Documented(m.host)
      BY <2>1, <2>4, <3>1, <3>2, ResolveLocated
    <3>6. QED
      BY <2>4, <2>5, <3>2, <3>4, <3>5
  <2>8. QED
    BY <2>6, <2>7 DEF t
<1>2. QED
  BY <1>1, Inductive, PTL
=============================================================================
