-------------------------- MODULE ImageBuildProofs --------------------------
(***************************************************************************)
(* Proofs about the image build coordinator (module ImageBuild) for every  *)
(* set of tasks and images and every parent relation.                      *)
(***************************************************************************)
EXTENDS ImageBuild, TLAPS

(* The frame an action writes is a frame.                                   *)
LEMMA FrameValues ==
    /\ Idle \in Frame
    /\ \A p \in PCs : At(p) \in Frame
  BY DEF Idle, At, Frame, PCs

(* A record with fields of the right types is a frame.                     *)
LEMMA FrameRecord ==
    ASSUME NEW p \in PCs, NEW h \in BOOLEAN, NEW b \in BOOLEAN
    PROVE  [pc |-> p, holds |-> h, base |-> b] \in Frame
  BY DEF Frame

(* Moving a frame to another pc.                                           *)
LEMMA FrameSet ==
    ASSUME NEW r \in Frame, NEW p \in PCs
    PROVE  [r EXCEPT !.pc = p] \in Frame
  BY DEF Frame

(* Goto(t, x, p) keeps the frames typed.                                    *)
LEMMA GotoType ==
    ASSUME NEW f \in [Tasks -> [Images -> Frame]],
           NEW t \in Tasks, NEW x \in Images, NEW p \in PCs
    PROVE  [f EXCEPT ![t][x].pc = p] \in [Tasks -> [Images -> Frame]]
<1>1. [f[t][x] EXCEPT !.pc = p] \in Frame
  BY FrameSet
<1>2. QED
  BY <1>1

(* Replacing one frame of one task by a frame keeps the frames typed.      *)
LEMMA ReplaceType ==
    ASSUME NEW f \in [Tasks -> [Images -> Frame]],
           NEW t \in Tasks, NEW x \in Images, NEW r \in Frame
    PROVE  [f EXCEPT ![t][x] = r] \in [Tasks -> [Images -> Frame]]
  OBVIOUS

(* ExistMissing keeps the frames typed: the frame of x waits in "clone"     *)
(* and the frame of its parent starts.                                      *)
LEMMA CallParentType ==
    ASSUME NEW f \in [Tasks -> [Images -> Frame]],
           NEW t \in Tasks, NEW x \in Images, NEW y \in Images,
           NEW p \in PCs, NEW q \in PCs
    PROVE  [f EXCEPT ![t][x].pc = p, ![t][y] = At(q)]
               \in [Tasks -> [Images -> Frame]]
<1>1. [f[t][x] EXCEPT !.pc = p] \in Frame
  BY FrameSet
<1>2. At(q) \in Frame
  BY FrameValues
<1>3. QED
  BY <1>1, <1>2

(***************************************************************************)
(* Type correctness: every step of build_image keeps each variable in its  *)
(* type.                                                                   *)
(***************************************************************************)
LEMMA TypeInit == Init => TypeOK
  BY FrameValues, ConstantsAssumption DEF Init, TypeOK

LEMMA TypeStep == TypeOK /\ [Next]_vars => TypeOK'
  <2> SUFFICES ASSUME TypeOK, [Next]_vars PROVE TypeOK'
    OBVIOUS
  <2> USE DEF TypeOK, Goto, Return, Raise
  <2>1. ASSUME NEW t \in Tasks, NEW x \in Images, Call(t, x) PROVE TypeOK'
    BY <2>1, FrameValues, ConstantsAssumption DEF Call, PCs
  <2>2. ASSUME NEW t \in Tasks, NEW x \in Images, Proceed(t, x) PROVE TypeOK'
    <3>1. CASE Acquire(t, x)
      BY <3>1, GotoType DEF Acquire, PCs
    <3>2. CASE ExistFound(t, x)
      BY <3>2, FrameValues DEF ExistFound, PCs
    <3>3. CASE ExistMissing(t, x)
      <4>1. CASE Parent[x] # NoParent
        <5>1. Parent[x] \in Images
          BY <4>1, ConstantsAssumption
        <5>2. fr' = [fr EXCEPT ![t][x].pc = "clone",
                               ![t][Parent[x]] = At("acquire")]
          BY <3>3, <4>1 DEF ExistMissing
        <5>3. [fr EXCEPT ![t][x].pc = "clone", ![t][Parent[x]] = At("acquire")]
                  \in [Tasks -> [Images -> Frame]]
          <6>1. "clone" \in PCs /\ "acquire" \in PCs
            BY DEF PCs
          <6>2. QED
            BY <5>1, <6>1, CallParentType
        <5>4. QED
          BY <3>3, <5>2, <5>3 DEF ExistMissing
      <4>2. CASE Parent[x] = NoParent
        <5>1. (IF x \in Url THEN "create" ELSE "scripts") \in PCs
          BY DEF PCs
        <5>2. QED
          BY <3>3, <4>2, <5>1, GotoType DEF ExistMissing
      <4>3. QED
        BY <4>1, <4>2
    <3>4. CASE Clone(t, x)
      <4> DEFINE r == [pc |-> "scripts", holds |-> x \notin present,
                       base |-> Parent[x] \in good]
      <4>1. r \in Frame
        <5>1. /\ "scripts" \in PCs /\ (Parent[x] \in good) \in BOOLEAN
              /\ (x \notin present) \in BOOLEAN
          BY DEF PCs
        <5>2. QED
          BY <5>1, FrameRecord
      <4>2. [fr EXCEPT ![t][x] = r] \in [Tasks -> [Images -> Frame]]
        BY <4>1, ReplaceType
      <4>3. QED
        BY <3>4, <4>2 DEF Clone
    <3>5. CASE CloneFails(t, x)
      BY <3>5, FrameValues DEF CloneFails, PCs
    <3>6. CASE Create(t, x)
      BY <3>6, FrameRecord DEF Create, PCs
    <3>7. CASE CreateFails(t, x)
      BY <3>7, FrameValues DEF CreateFails, PCs
    <3>8. CASE Download(t, x)
      BY <3>8, FrameValues DEF Download, PCs
    <3>9. CASE DownloadFails(t, x)
      BY <3>9, FrameValues DEF DownloadFails, PCs
    <3>10. CASE NoBuildScripts(t, x)
      BY <3>10, GotoType DEF NoBuildScripts, PCs
    <3>11. CASE BootImage(t, x)
      BY <3>11, GotoType DEF BootImage, PCs
    <3>12. CASE BootImageFails(t, x)
      BY <3>12, FrameValues DEF BootImageFails, PCs
    <3>13. CASE RunScriptsFails(t, x)
      BY <3>13, GotoType DEF RunScriptsFails, PCs
    <3>14. CASE Destroy(t, x)
      BY <3>14, FrameValues DEF Destroy, PCs
    <3>15. CASE DestroyFails(t, x)
      BY <3>15, FrameValues DEF DestroyFails, PCs
    <3>16. CASE Settle(t, x)
      BY <3>16, FrameValues DEF Settle, PCs
    <3>17. QED
      BY <2>2, <3>1, <3>2, <3>3, <3>4, <3>5, <3>6, <3>7, <3>8, <3>9, <3>10, <3>11, <3>12, <3>13, <3>14, <3>15, <3>16 DEF Proceed
  <2>3. CASE Finished \/ UNCHANGED vars
    BY <2>3 DEF Finished, vars
  <2>4. QED
    BY <2>1, <2>2, <2>3 DEF Next

THEOREM TypeCorrect == Spec => []TypeOK
  BY TypeInit, TypeStep, PTL DEF Spec

-----------------------------------------------------------------------------
(***************************************************************************)
(* Built images persist.  BuiltImagesPersist is not inductive as it        *)
(* stands: the except branch of build_image deletes storage_name, the      *)
(* image itself, whoever made its subvolume, and snapshot nests into an    *)
(* existing subvolume, so two tasks can build one image at once.  What     *)
(* keeps a complete image safe is the shape of the paths through           *)
(* build_image: only an image with build scripts reaches the except        *)
(* branch, every build script fails (RunScriptsFails), so such an image    *)
(* becomes complete only by download, which returns before the scripts.   *)
(***************************************************************************)

\* Images build_image downloads and returns from: no parent and a url.
Downloaded == {x \in Images : Parent[x] = NoParent /\ x \in Url}

\* The pcs of a frame past the create or clone of its subvolume.
Provisioned == {"download", "scripts", "run", "destroy", "settle"}

(* What a frame r of image z says about z: which images reach which pcs,   *)
(* and that a frame holds a subvolume only past its create or clone.        *)
FrameOK(r, z) ==
    /\ r.holds => r.pc \in Provisioned
    /\ r.pc = "clone" => Parent[z] # NoParent
    /\ r.pc \in {"create", "download"} => z \in Downloaded
    /\ r.pc \in {"scripts", "run", "destroy", "settle"} => z \notin Downloaded
    /\ r.pc \in {"run", "destroy"} => z \in Scripts
    /\ r.pc = "settle" => z \notin Scripts

(* The subvolume a frame may go on to mark complete exists in P.            *)
PresentOK(r, P, z) ==
    r.pc = "download" \/ (r.holds /\ z \notin Scripts) => z \in P

\* Every frame of fr satisfies FrameOK and PresentOK over the subvolumes P.
FramesOK(f, P) ==
    \A t \in Tasks, x \in Images : FrameOK(f[t][x], x) /\ PresentOK(f[t][x], P, x)

IInv ==
    /\ TypeOK
    /\ good \subseteq present
    /\ good \cap Scripts \subseteq Downloaded
    /\ FramesOK(fr, present)

LEMMA IInvInit == Init => IInv
  BY TypeInit DEF Init, IInv, FramesOK, FrameOK, PresentOK, Idle

(* How Goto changes a frame.                                                *)
LEMMA GotoFields ==
    ASSUME NEW r \in Frame, NEW p
    PROVE  /\ [r EXCEPT !.pc = p].pc = p
           /\ [r EXCEPT !.pc = p].holds = r.holds
  BY DEF Frame

(* The frame at (u, z) after one frame is replaced.                         *)
LEMMA ReplaceAt ==
    ASSUME NEW f \in [Tasks -> [Images -> Frame]], NEW r,
           NEW t \in Tasks, NEW x \in Images,
           NEW u \in Tasks, NEW z \in Images
    PROVE  /\ [f EXCEPT ![t][x] = r][u][z] = IF u = t /\ z = x THEN r ELSE f[u][z]
           /\ [f EXCEPT ![t][x].pc = r][u][z] =
                  IF u = t /\ z = x THEN [f[t][x] EXCEPT !.pc = r] ELSE f[u][z]
  OBVIOUS

(* The frame at (u, z) after the frames of task t are unwound.              *)
LEMMA RaiseAt ==
    ASSUME NEW f \in [Tasks -> [Images -> Frame]],
           NEW t \in Tasks, NEW u \in Tasks, NEW z \in Images
    PROVE  [f EXCEPT ![t] = [y \in Images |-> Idle]][u][z] =
               IF u = t THEN Idle ELSE f[u][z]
  OBVIOUS

(* The parent of an image is another image.                                 *)
LEMMA ParentDiffers ==
    ASSUME NEW x \in Images, Parent[x] # NoParent
    PROVE  Parent[x] # x
<1>1. PICK rank \in [Images -> 0..Cardinality(Images)] :
          \A y \in Images : Parent[y] # NoParent => rank[Parent[y]] < rank[y]
  BY ParentsAcyclic
<1>2. rank[Parent[x]] < rank[x]
  BY <1>1
<1>3. QED
  BY <1>2

(* Every step keeps IInv.  The frame updates of the actions come in two    *)
(* shapes, each handled once: one frame replaced (<1>r) and all frames of   *)
(* a task unwound (<1>u); ExistMissing, which also starts the parent's      *)
(* frame, is done on its own.                                               *)
LEMMA IInvStep == IInv /\ [Next]_vars => IInv'
<1> SUFFICES ASSUME IInv, [Next]_vars PROVE IInv'
  OBVIOUS
<1>f. fr \in [Tasks -> [Images -> Frame]]
  BY DEF IInv, TypeOK
<1>g. good \subseteq present /\ good \cap Scripts \subseteq Downloaded
  BY DEF IInv
<1>h. ASSUME NEW t \in Tasks, NEW x \in Images
      PROVE  FrameOK(fr[t][x], x) /\ PresentOK(fr[t][x], present, x)
  BY DEF IInv, FramesOK
<1>0. TypeOK'
  BY TypeStep DEF IInv
<1> DEFINE Kept ==
      /\ good' \subseteq present'
      /\ good' \cap Scripts \subseteq Downloaded
      /\ FramesOK(fr', present')
<1> SUFFICES Kept
  BY <1>0 DEF IInv
<1>r. ASSUME NEW t \in Tasks, NEW x \in Images, NEW r,
             \A u \in Tasks, z \in Images :
                fr'[u][z] = IF u = t /\ z = x THEN r ELSE fr[u][z],
             present \subseteq present',
             FrameOK(r, x), PresentOK(r, present', x)
      PROVE  FramesOK(fr', present')
  BY <1>r, <1>h DEF FramesOK, PresentOK
<1>u. ASSUME NEW t \in Tasks, NEW x \in Images,
             \A u \in Tasks, z \in Images :
                fr'[u][z] = IF u = t THEN Idle ELSE fr[u][z],
             \/ present' = present
             \/ present' = present \ {x} /\ x \in Scripts /\ x \notin Downloaded
      PROVE  FramesOK(fr', present')
  <2> SUFFICES ASSUME NEW u \in Tasks, NEW z \in Images
               PROVE  FrameOK(fr'[u][z], z) /\ PresentOK(fr'[u][z], present', z)
    BY DEF FramesOK
  <2>1. CASE u = t
    BY <1>u, <2>1 DEF FrameOK, PresentOK, Idle
  <2>2. CASE u # t
    <3>1. fr'[u][z] = fr[u][z]
      BY <1>u, <2>2
    <3>2. FrameOK(fr[u][z], z) /\ PresentOK(fr[u][z], present, z)
      BY <1>h
    <3>3. PresentOK(fr[u][z], present', z)
      BY <1>u, <3>2 DEF PresentOK, FrameOK
    <3>4. QED
      BY <3>1, <3>2, <3>3
  <2>3. QED
    BY <2>1, <2>2
\* The frame t runs, once Goto moves it to pc p.
<1>p. ASSUME NEW t \in Tasks, NEW x \in Images, NEW p, Goto(t, x, p)
      PROVE  /\ \A u \in Tasks, z \in Images :
                   fr'[u][z] = IF u = t /\ z = x THEN [fr[t][x] EXCEPT !.pc = p]
                                                 ELSE fr[u][z]
             /\ [fr[t][x] EXCEPT !.pc = p].pc = p
             /\ [fr[t][x] EXCEPT !.pc = p].holds = fr[t][x].holds
  BY <1>p, <1>f, ReplaceAt, GotoFields DEF Goto
<1>i. ASSUME NEW t \in Tasks, NEW x \in Images, Raise(t)
      PROVE  \A u \in Tasks, z \in Images :
                fr'[u][z] = IF u = t THEN Idle ELSE fr[u][z]
  BY <1>i, <1>f, RaiseAt DEF Raise
<1>e. ASSUME NEW t \in Tasks, NEW x \in Images, NEW q, Running(t, x, q),
             q \notin Provisioned
      PROVE  ~fr[t][x].holds
  BY <1>e, <1>h DEF Running, FrameOK
<1>1. ASSUME NEW t \in Tasks, NEW x \in Images, Call(t, x) PROVE Kept
  <2>1. \A u \in Tasks, z \in Images :
           fr'[u][z] = IF u = t /\ z = x THEN At("acquire") ELSE fr[u][z]
    BY <1>1, <1>f, ReplaceAt DEF Call
  <2>2. FrameOK(At("acquire"), x) /\ PresentOK(At("acquire"), present', x)
    BY DEF At, FrameOK, PresentOK
  <2>3. QED
    BY <1>1, <1>g, <2>1, <2>2, <1>r DEF Call
<1>2. ASSUME NEW t \in Tasks, NEW x \in Images, ExistMissing(t, x) PROVE Kept
  <2>0. present' = present /\ good' = good /\ ~fr[t][x].holds
    BY <1>2, <1>e DEF ExistMissing, Provisioned
  <2>1. CASE Parent[x] # NoParent
    <3>1. Parent[x] \in Images /\ Parent[x] # x
      BY <2>1, ParentDiffers, ConstantsAssumption
    <3>2. ASSUME NEW u \in Tasks, NEW z \in Images
          PROVE  fr'[u][z] = IF u = t /\ z = Parent[x] THEN At("acquire")
                             ELSE IF u = t /\ z = x
                                  THEN [fr[t][x] EXCEPT !.pc = "clone"]
                                  ELSE fr[u][z]
      <4>1. fr' = [fr EXCEPT ![t][x].pc = "clone", ![t][Parent[x]] = At("acquire")]
        BY <1>2, <2>1 DEF ExistMissing
      <4>2. QED
        BY <4>1, <3>1, <1>f
    <3>3. /\ [fr[t][x] EXCEPT !.pc = "clone"].pc = "clone"
          /\ [fr[t][x] EXCEPT !.pc = "clone"].holds = fr[t][x].holds
      BY <1>f, GotoFields
    <3>4. ASSUME NEW u \in Tasks, NEW z \in Images
          PROVE  FrameOK(fr'[u][z], z) /\ PresentOK(fr'[u][z], present', z)
      <4>1. CASE u = t /\ z = Parent[x]
        BY <3>2, <4>1 DEF At, FrameOK, PresentOK
      <4>2. CASE u = t /\ z = x
        BY <2>0, <2>1, <3>1, <3>2, <3>3, <4>2 DEF FrameOK, PresentOK
      <4>3. CASE ~(u = t /\ z = Parent[x]) /\ ~(u = t /\ z = x)
        BY <2>0, <3>2, <4>3, <1>h
      <4>4. QED
        BY <4>1, <4>2, <4>3
    <3>5. QED
      BY <2>0, <1>g, <3>4 DEF FramesOK
  <2>2. CASE Parent[x] = NoParent
    <3> DEFINE p == IF x \in Url THEN "create" ELSE "scripts"
    <3>1. Goto(t, x, p)
      BY <1>2, <2>2 DEF ExistMissing, Goto
    <3>2. FrameOK([fr[t][x] EXCEPT !.pc = p], x)
          /\ PresentOK([fr[t][x] EXCEPT !.pc = p], present', x)
      BY <3>1, <1>p, <2>0, <2>2 DEF FrameOK, PresentOK, Downloaded, Provisioned
    <3>3. QED
      BY <3>1, <3>2, <1>p, <2>0, <1>g, <1>r
  <2>3. QED
    BY <2>1, <2>2
\* The steps that unwind task t and leave the subvolumes alone.
<1>3. ASSUME NEW t \in Tasks, NEW x \in Images, Raise(t),
             present' = present, good' = good
      PROVE  Kept
  BY <1>3, <1>i, <1>u, <1>g
\* The steps that move the frame of x in t to a pc p.
<1>4. ASSUME NEW t \in Tasks, NEW x \in Images, NEW p, Goto(t, x, p),
             present' = present, good' = good,
             FrameOK([fr[t][x] EXCEPT !.pc = p], x),
             PresentOK([fr[t][x] EXCEPT !.pc = p], present, x)
      PROVE  Kept
  BY <1>4, <1>p, <1>r, <1>g
\* The steps that return from build_image(x) in t.
<1>5. ASSUME NEW t \in Tasks, NEW x \in Images, Return(t, x),
             present' = present
      PROVE  FramesOK(fr', present')
  <2>1. \A u \in Tasks, z \in Images :
           fr'[u][z] = IF u = t /\ z = x THEN Idle ELSE fr[u][z]
    BY <1>5, <1>f, ReplaceAt DEF Return
  <2>2. FrameOK(Idle, x) /\ PresentOK(Idle, present', x)
    BY DEF Idle, FrameOK, PresentOK
  <2>3. QED
    BY <1>5, <2>1, <2>2, <1>r
<1>6. ASSUME NEW t \in Tasks, NEW x \in Images, Proceed(t, x) PROVE Kept
  <2>1. CASE Acquire(t, x)
    <3>1. ~fr[t][x].holds
      BY <2>1, <1>e DEF Acquire, Provisioned
    <3>2. QED
      BY <2>1, <3>1, <1>p, <1>4 DEF Acquire, FrameOK, PresentOK
  <2>2. CASE ExistFound(t, x)
    BY <2>2, <1>5, <1>g DEF ExistFound
  <2>3. CASE ExistMissing(t, x)
    BY <2>3, <1>2
  <2>4. CASE Clone(t, x)
    <3> DEFINE r == [pc |-> "scripts", holds |-> x \notin present,
                     base |-> Parent[x] \in good]
    <3>1. \A u \in Tasks, z \in Images :
             fr'[u][z] = IF u = t /\ z = x THEN r ELSE fr[u][z]
      BY <2>4, <1>f, ReplaceAt DEF Clone
    <3>2. present' = present \cup {x} /\ good' = good
      BY <2>4 DEF Clone
    <3>3. Parent[x] # NoParent
      BY <2>4, <1>h DEF Clone, Running, FrameOK
    <3>4. FrameOK(r, x) /\ PresentOK(r, present', x)
      BY <3>2, <3>3 DEF FrameOK, PresentOK, Downloaded, Provisioned
    <3>5. QED
      BY <3>1, <3>2, <3>4, <1>g, <1>r
  <2>5. CASE CloneFails(t, x)
    BY <2>5, <1>3 DEF CloneFails
  <2>6. CASE Create(t, x)
    <3> DEFINE r == [pc |-> "download", holds |-> TRUE, base |-> TRUE]
    <3>1. \A u \in Tasks, z \in Images :
             fr'[u][z] = IF u = t /\ z = x THEN r ELSE fr[u][z]
      BY <2>6, <1>f, ReplaceAt DEF Create
    <3>2. present' = present \cup {x} /\ good' = good
      BY <2>6 DEF Create
    <3>3. x \in Downloaded
      BY <2>6, <1>h DEF Create, Running, FrameOK
    <3>4. FrameOK(r, x) /\ PresentOK(r, present', x)
      BY <3>2, <3>3 DEF FrameOK, PresentOK, Provisioned
    <3>5. QED
      BY <3>1, <3>2, <3>4, <1>g, <1>r
  <2>7. CASE CreateFails(t, x)
    BY <2>7, <1>3 DEF CreateFails
  <2>8. CASE Download(t, x)
    <3>1. x \in present /\ x \in Downloaded
      BY <2>8, <1>h DEF Download, Running, FrameOK, PresentOK
    <3>2. present' = present /\ good' = good \cup {x}
      BY <2>8 DEF Download
    <3>3. QED
      BY <2>8, <3>1, <3>2, <1>g, <1>5 DEF Download
  <2>9. CASE DownloadFails(t, x)
    BY <2>9, <1>3 DEF DownloadFails
  <2>10. CASE NoBuildScripts(t, x)
    <3>1. FrameOK(fr[t][x], x) /\ PresentOK(fr[t][x], present, x)
          /\ fr[t][x].pc = "scripts" /\ x \notin Scripts
      BY <2>10, <1>h DEF NoBuildScripts, Running
    <3>2. Goto(t, x, "settle")
      BY <2>10 DEF NoBuildScripts
    <3>3. /\ [fr[t][x] EXCEPT !.pc = "settle"].pc = "settle"
          /\ [fr[t][x] EXCEPT !.pc = "settle"].holds = fr[t][x].holds
      BY <3>2, <1>p
    <3>4. FrameOK([fr[t][x] EXCEPT !.pc = "settle"], x)
          /\ PresentOK([fr[t][x] EXCEPT !.pc = "settle"], present, x)
      BY <3>1, <3>3 DEF FrameOK, PresentOK, Provisioned
    <3>5. QED
      BY <2>10, <3>2, <3>4, <1>4 DEF NoBuildScripts
  <2>11. CASE BootImage(t, x)
    <3>1. FrameOK(fr[t][x], x) /\ fr[t][x].pc = "scripts" /\ x \in Scripts
      BY <2>11, <1>h DEF BootImage, Running
    <3>2. Goto(t, x, "run")
      BY <2>11 DEF BootImage
    <3>3. /\ [fr[t][x] EXCEPT !.pc = "run"].pc = "run"
          /\ [fr[t][x] EXCEPT !.pc = "run"].holds = fr[t][x].holds
      BY <3>2, <1>p
    <3>4. FrameOK([fr[t][x] EXCEPT !.pc = "run"], x)
          /\ PresentOK([fr[t][x] EXCEPT !.pc = "run"], present, x)
      BY <3>1, <3>3 DEF FrameOK, PresentOK, Provisioned
    <3>5. QED
      BY <2>11, <3>2, <3>4, <1>4 DEF BootImage
  <2>12. CASE BootImageFails(t, x)
    BY <2>12, <1>3 DEF BootImageFails
  <2>13. CASE RunScriptsFails(t, x)
    <3>1. FrameOK(fr[t][x], x) /\ fr[t][x].pc = "run"
      BY <2>13, <1>h DEF RunScriptsFails, Running
    <3>2. Goto(t, x, "destroy")
      BY <2>13 DEF RunScriptsFails
    <3>3. /\ [fr[t][x] EXCEPT !.pc = "destroy"].pc = "destroy"
          /\ [fr[t][x] EXCEPT !.pc = "destroy"].holds = fr[t][x].holds
      BY <3>2, <1>p
    <3>4. FrameOK([fr[t][x] EXCEPT !.pc = "destroy"], x)
          /\ PresentOK([fr[t][x] EXCEPT !.pc = "destroy"], present, x)
      BY <3>1, <3>3 DEF FrameOK, PresentOK, Provisioned
    <3>5. QED
      BY <2>13, <3>2, <3>4, <1>4 DEF RunScriptsFails
  <2>14. CASE Destroy(t, x)
    <3>1. x \in Scripts /\ x \notin Downloaded
      BY <2>14, <1>h DEF Destroy, Running, FrameOK
    <3>2. present' = present \ {x} /\ good' = good \ {x}
      BY <2>14 DEF Destroy
    <3>3. FramesOK(fr', present')
      BY <2>14, <3>1, <3>2, <1>i, <1>u DEF Destroy
    <3>4. QED
      BY <3>2, <3>3, <1>g
  <2>15. CASE DestroyFails(t, x)
    BY <2>15, <1>3 DEF DestroyFails
  <2>16. CASE Settle(t, x)
    <3>1. FrameOK(fr[t][x], x) /\ PresentOK(fr[t][x], present, x)
          /\ fr[t][x].pc = "settle"
      BY <2>16, <1>h DEF Settle, Running
    <3>2. fr[t][x].holds => x \in present /\ x \notin Scripts
      BY <3>1 DEF FrameOK, PresentOK
    <3>3. present' = present
          /\ (good' = good \/ (fr[t][x].holds /\ good' = good \cup {x}))
      BY <2>16 DEF Settle
    <3>4. QED
      BY <2>16, <3>2, <3>3, <1>g, <1>5 DEF Settle
  <2>17. QED
    BY <1>6, <2>1, <2>2, <2>3, <2>4, <2>5, <2>6, <2>7, <2>8, <2>9, <2>10,
       <2>11, <2>12, <2>13, <2>14, <2>15, <2>16
    DEF Proceed
<1>7. CASE Finished \/ UNCHANGED vars
  <2>1. present' = present /\ good' = good /\ fr' = fr
    BY <1>7 DEF Finished, vars
  <2>2. QED
    BY <2>1, <1>g, <1>h DEF FramesOK
<1>8. QED
  BY <1>1, <1>6, <1>7 DEF Next

(* The strengthened invariant holds in every reachable state: every        *)
(* complete image exists and is one that no except branch can reach, and    *)
(* each frame is at a pc its image's configuration allows.                  *)
THEOREM IInvHolds == Spec => []IInv
  BY IInvInit, IInvStep, PTL DEF Spec

-----------------------------------------------------------------------------
(* Built images persist.                                                    *)

\* The step BuiltImagesPersist constrains.
KeepsBuilt == \A x \in good : x \in good' /\ x \in present'

\* Only Destroy removes a subvolume, and only that of an image with build
\* scripts that is not downloaded, which IInv says is never complete; every
\* other step keeps `good` and `present` or adds to them.
LEMMA KeepsBuiltStep == IInv /\ [Next]_vars => [KeepsBuilt]_vars
<1> SUFFICES ASSUME IInv, [Next]_vars PROVE KeepsBuilt
  BY DEF KeepsBuilt
<1>1. good \subseteq present /\ good \cap Scripts \subseteq Downloaded
  BY DEF IInv
<1>2. ASSUME NEW t \in Tasks, NEW x \in Images, Destroy(t, x)
      PROVE  KeepsBuilt
  <2>1. x \in Scripts /\ x \notin Downloaded
    BY <1>2 DEF IInv, FramesOK, FrameOK, Destroy, Running
  <2>2. x \notin good
    BY <1>1, <2>1
  <2>3. QED
    BY <1>1, <1>2, <2>2 DEF Destroy, KeepsBuilt
<1>3. ASSUME NEW t \in Tasks, NEW x \in Images,
             \/ Call(t, x) \/ Acquire(t, x) \/ ExistFound(t, x)
             \/ ExistMissing(t, x) \/ Clone(t, x) \/ CloneFails(t, x)
             \/ Create(t, x) \/ CreateFails(t, x) \/ Download(t, x)
             \/ DownloadFails(t, x) \/ NoBuildScripts(t, x)
             \/ BootImage(t, x) \/ BootImageFails(t, x)
             \/ RunScriptsFails(t, x) \/ DestroyFails(t, x) \/ Settle(t, x)
      PROVE  good \subseteq good' /\ present \subseteq present'
  BY <1>3 DEF Call, Acquire, ExistFound, ExistMissing, Clone, CloneFails,
     Create, CreateFails, Download, DownloadFails, NoBuildScripts, BootImage,
     BootImageFails, RunScriptsFails, DestroyFails, Settle
<1>4. CASE Finished \/ UNCHANGED vars
  BY <1>4, <1>1 DEF Finished, vars, KeepsBuilt
<1>5. QED
  BY <1>1, <1>2, <1>3, <1>4 DEF Next, Proceed, KeepsBuilt

(* A completely built image is never destroyed or un-built, for every set  *)
(* of tasks and images and every parent relation: the except branch of     *)
(* build_image deletes its own image, and only an image that can never be  *)
(* complete reaches it.                                                     *)
THEOREM BuiltPersist == Spec => BuiltImagesPersist
  BY IInvHolds, KeepsBuiltStep, PTL DEF Spec, BuiltImagesPersist, KeepsBuilt

=============================================================================
