----------------------------- MODULE Runner_proofs -----------------------------
(***************************************************************************)
(* Proofs about Runner, for any list of connections over any libraries: a  *)
(* gateway that runs or has io threads keeps its library mapped until its  *)
(* own handle is closed, and every gateway that was started is a resource, *)
(* once.                                                                   *)
(***************************************************************************)
EXTENDS Runner, FiniteSetTheorems, TLAPS

Loaded == {"create", "init_shm", "start", "save"}
Waits == {"wait", "block", "asleep"}
Stopping == {"join_work", "on_stop", "close"}

\* The connections that hold a handle, the leaked ones without threads left aside: those
\* whose threads need it, and the one being loaded or released.
Holders ==
    ((running \cup io) \ released)
        \cup (IF pc \in Loaded THEN {i} ELSE IF pc \in Stopping THEN {Instance} ELSE {})

UsersIn(H, l) == {c \in H : LibPath[c] = l}

RefsCover == \A l \in Libs : refs[l] >= Cardinality(UsersIn(Holders, l))

\* The loop over the connections opens at most one handle each.
RefsBound ==
    \A l \in Libs :
        /\ pc = "load" => refs[l] <= i - 1
        /\ pc \in Loaded => refs[l] <= i

Managed == {md_resources[k] : k \in DOMAIN md_resources}

\* The resources are distinct connections, in order, before the one being loaded.
Resources ==
    /\ \A j, k \in DOMAIN md_resources : md_resources[j] = md_resources[k] => j = k
    /\ IsFiniteSet(Managed) /\ Cardinality(Managed) = Len(md_resources)
    /\ Len(md_resources) <= Len(LibPath)
    /\ pc \in Loaded \cup {"load"} =>
        /\ \A k \in DOMAIN md_resources : md_resources[k] < i
        /\ Len(md_resources) <= i - 1
    /\ pc \in Loaded => i \in Conns
    /\ pc \in {"init_shm", "start", "save"} => i \in alive
    /\ pc \in Stopping \cup {"destroy"} => i \in DOMAIN md_resources

Left(k) == {md_resources[j] : j \in k .. Len(md_resources)}

\* What runs is what is among the resources and not yet stopped.
RunningIs ==
    /\ pc \in {"load", "create", "init_shm", "start"} \cup Waits => running = Managed
    /\ pc = "save" => running = Managed \cup {i}
    /\ pc = "stop" => running = Left(i)
    /\ pc \in Stopping \cup {"destroy"} => running = Left(i + 1)

\* No handle is closed under a gateway before the resources are released, in order.
ReleasedIs ==
    /\ pc \in Loaded \cup Waits \cup {"load"} => released = {}
    /\ pc \in Stopping \cup {"stop"} => released \cap Left(i) = {}
    /\ pc = "destroy" => released \cap Left(i + 1) = {}

\* Io threads are made one connection after the other.
IoBefore ==
    /\ pc \in {"load", "create", "init_shm"} => \A c \in io : c < i
    /\ pc \in {"start", "save"} => \A c \in io : c <= i

Shape == TypeOK /\ Resources /\ RunningIs /\ ReleasedIs /\ IoBefore
IInv == Shape /\ RefsCover /\ RefsBound

-----------------------------------------------------------------------------
(* Counting handles.                                                       *)

LEMMA ConnsFinite == IsFiniteSet(Conns) /\ Conns = 1 .. Len(LibPath) /\ Len(LibPath) \in Nat
<1>1. Conns = 1 .. Len(LibPath) /\ Len(LibPath) \in Nat BY RunnerAssumption DEF Conns
<1> QED BY <1>1, FS_Interval

LEMMA HoldersConns == ASSUME Shape PROVE Holders \subseteq Conns
<1>1. ASSUME pc \in Stopping PROVE Instance \in Conns
  BY <1>1 DEF Shape, TypeOK, Resources, Instance
<1>2. running \subseteq Conns /\ io \subseteq Conns BY DEF Shape, TypeOK
<1>3. ASSUME pc \in Loaded PROVE i \in Conns BY <1>3 DEF Shape, Resources
<1> QED BY <1>1, <1>2, <1>3 DEF Holders

LEMMA UsersFinite ==
    ASSUME NEW H, H \subseteq Conns, NEW l
    PROVE  IsFiniteSet(UsersIn(H, l)) /\ Cardinality(UsersIn(H, l)) \in Nat
<1>1. UsersIn(H, l) \in SUBSET Conns BY DEF UsersIn
<1> QED BY <1>1, ConnsFinite, FS_Subset, FS_CardinalityType

LEMMA UsersMonotone ==
    ASSUME NEW H, H \subseteq Conns, NEW G, G \subseteq H, NEW l
    PROVE  Cardinality(UsersIn(G, l)) <= Cardinality(UsersIn(H, l))
<1>1. UsersIn(G, l) \in SUBSET UsersIn(H, l) BY DEF UsersIn
<1> QED BY <1>1, UsersFinite, FS_Subset

\* A step that takes and gives no handle and has no new holder.
LEMMA CoverKept ==
    ASSUME RefsCover, Shape, Holders' \subseteq Holders, refs' = refs
    PROVE  RefsCover'
<1> SUFFICES ASSUME NEW l \in Libs PROVE refs[l] >= Cardinality(UsersIn(Holders', l))
  BY DEF RefsCover, UsersIn
<1>1. refs[l] >= Cardinality(UsersIn(Holders, l)) BY DEF RefsCover
<1>2. Cardinality(UsersIn(Holders', l)) <= Cardinality(UsersIn(Holders, l))
  BY HoldersConns, UsersMonotone
<1>3. Cardinality(UsersIn(Holders', l)) \in Nat /\ Cardinality(UsersIn(Holders, l)) \in Nat
  BY HoldersConns, UsersFinite
<1>4. refs[l] \in Int BY RunnerAssumption DEF Shape, TypeOK
<1> QED BY <1>1, <1>2, <1>3, <1>4

\* dlopen for a connection that holds nothing yet.
LEMMA CoverOpened ==
    ASSUME RefsCover, Shape, NEW x \in Conns, Holders' \subseteq Holders \cup {x},
           refs' = [refs EXCEPT ![LibPath[x]] = @ + 1]
    PROVE  RefsCover'
<1> SUFFICES ASSUME NEW l \in Libs PROVE refs'[l] >= Cardinality(UsersIn(Holders', l))
  BY DEF RefsCover, UsersIn
<1> DEFINE H == Holders
<1>1. refs[l] >= Cardinality(UsersIn(H, l)) BY DEF RefsCover
<1>2. H \subseteq Conns /\ H \cup {x} \subseteq Conns BY HoldersConns
<1> HIDE DEF H
<1>3. Cardinality(UsersIn(Holders', l)) <= Cardinality(UsersIn(H \cup {x}, l))
  BY <1>2, UsersMonotone DEF H
<1>4. /\ Cardinality(UsersIn(H, l)) \in Nat /\ Cardinality(UsersIn(H \cup {x}, l)) \in Nat
      /\ Cardinality(UsersIn(Holders', l)) \in Nat /\ IsFiniteSet(UsersIn(H, l))
  <2>1. Holders' \subseteq Conns BY <1>2 DEF H
  <2> QED BY <1>2, <2>1, UsersFinite
<1>5. refs[l] \in Int /\ LibPath[x] \in Libs /\ l \in DOMAIN refs
  BY RunnerAssumption DEF Shape, TypeOK, Conns
<1>6. CASE l = LibPath[x]
  <2>1. UsersIn(H \cup {x}, l) = UsersIn(H, l) \cup {x} BY <1>6 DEF UsersIn
  <2>2. Cardinality(UsersIn(H \cup {x}, l)) <= Cardinality(UsersIn(H, l)) + 1
    <3> DEFINE U == UsersIn(H, l)
    <3>1. IsFiniteSet(U) /\ Cardinality(U) \in Nat BY <1>4
    <3> HIDE DEF U
    <3>2. Cardinality(U \cup {x}) = IF x \in U THEN Cardinality(U) ELSE Cardinality(U) + 1
      BY <3>1, FS_AddElement
    <3>3. Cardinality(U \cup {x}) <= Cardinality(U) + 1 BY <3>1, <3>2
    <3> QED BY <2>1, <3>3 DEF U
  <2>3. refs'[l] = refs[l] + 1 BY <1>5, <1>6
  <2> QED BY <1>1, <1>3, <1>4, <1>5, <2>2, <2>3
<1>7. CASE l # LibPath[x]
  <2>1. UsersIn(H \cup {x}, l) = UsersIn(H, l) BY <1>7 DEF UsersIn
  <2>2. refs'[l] = refs[l] BY <1>5, <1>7
  <2> QED BY <1>1, <1>3, <1>4, <1>5, <2>1, <2>2
<1> QED BY <1>6, <1>7

\* dlclose by a holder.
LEMMA CoverClosed ==
    ASSUME RefsCover, Shape, NEW x \in Holders, Holders' \subseteq Holders \ {x},
           refs' = [refs EXCEPT ![LibPath[x]] = @ - 1]
    PROVE  RefsCover' /\ refs[LibPath[x]] >= 1
<1> DEFINE H == Holders
<1>1. H \subseteq Conns /\ H \ {x} \subseteq Conns /\ x \in Conns /\ x \in H
  BY HoldersConns
<1>2. \A l \in Libs : refs[l] >= Cardinality(UsersIn(H, l)) BY DEF RefsCover
<1>3. LibPath[x] \in Libs /\ refs \in [Libs -> Int]
  <2>1. 0 .. Len(LibPath) \subseteq Int BY ConnsFinite
  <2> QED BY <1>1, <2>1, RunnerAssumption DEF Shape, TypeOK, Conns
<1> HIDE DEF H
<1>4. ASSUME NEW l \in Libs
      PROVE  /\ refs'[l] >= Cardinality(UsersIn(Holders', l))
             /\ l = LibPath[x] => refs[l] >= 1
  <2>1. Cardinality(UsersIn(Holders', l)) <= Cardinality(UsersIn(H \ {x}, l))
    BY <1>1, UsersMonotone DEF H
  <2>2. /\ Cardinality(UsersIn(H, l)) \in Nat /\ Cardinality(UsersIn(H \ {x}, l)) \in Nat
        /\ Cardinality(UsersIn(Holders', l)) \in Nat /\ IsFiniteSet(UsersIn(H, l))
    <3>1. Holders' \subseteq Conns BY <1>1 DEF H
    <3> QED BY <1>1, <3>1, UsersFinite
  <2>3. CASE l = LibPath[x]
    <3>1. UsersIn(H \ {x}, l) = UsersIn(H, l) \ {x} /\ x \in UsersIn(H, l)
      BY <1>1, <2>3 DEF UsersIn
    <3>2. Cardinality(UsersIn(H \ {x}, l)) = Cardinality(UsersIn(H, l)) - 1
      BY <3>1, <2>2, FS_RemoveElement
    <3>3. refs'[l] = refs[l] - 1 /\ refs[l] \in Int BY <1>3, <2>3
    <3> QED BY <1>2, <2>1, <2>2, <3>2, <3>3
  <2>4. CASE l # LibPath[x]
    <3>1. UsersIn(H \ {x}, l) = UsersIn(H, l) BY <2>4 DEF UsersIn
    <3>2. refs'[l] = refs[l] /\ refs[l] \in Int BY <1>3, <2>4
    <3> QED BY <1>2, <2>1, <2>2, <2>4, <3>1, <3>2
  <2> QED BY <2>3, <2>4
<1>5. RefsCover' BY <1>4 DEF RefsCover, UsersIn
<1> QED BY <1>3, <1>4, <1>5

-----------------------------------------------------------------------------
(* The steps.                                                              *)

LEMMA InitIInv == Init => IInv
<1> SUFFICES ASSUME Init PROVE IInv OBVIOUS
<1> USE DEF Init
<1>l. Len(LibPath) \in Nat BY ConnsFinite
<1>1. TypeOK
  <2>1. i \in 1 .. Len(LibPath) + 1 /\ 0 \in 0 .. Len(LibPath) BY <1>l
  <2>2. refs \in [Libs -> 0 .. Len(LibPath)] BY <2>1
  <2>3. md_resources \in Seq(Conns) /\ signals \in 0 .. MaxSignals BY RunnerAssumption
  <2> QED BY <2>1, <2>2, <2>3 DEF TypeOK
<1>2. Managed = {} /\ DOMAIN md_resources = {} /\ Len(md_resources) = 0 BY DEF Managed
<1>3. Resources BY <1>2, <1>l, FS_EmptySet DEF Resources, Loaded, Stopping
<1>4. RunningIs /\ ReleasedIs /\ IoBefore
  BY <1>2 DEF RunningIs, ReleasedIs, IoBefore, Stopping, Waits
<1>5. RefsCover
  <2>1. \A l : UsersIn(Holders, l) = {} BY DEF UsersIn, Holders, Loaded, Stopping
  <2> QED BY <2>1, FS_EmptySet DEF RefsCover
<1>6. RefsBound BY DEF RefsBound, Loaded
<1> QED BY <1>1, <1>3, <1>4, <1>5, <1>6 DEF IInv, Shape

\* From one connection to the next, or to the wait.
LEMMA LoadStep ==
    ASSUME IInv, Skip \/ DlOpen \/ LoadDone
    PROVE  IInv'
<1> USE DEF IInv, Shape, signalVars, gatewayVars, handleVars, Loaded, Stopping, Waits
<1>t. TypeOK /\ Resources /\ RunningIs /\ ReleasedIs /\ IoBefore OBVIOUS
<1>l. Len(LibPath) \in Nat /\ Conns = 1 .. Len(LibPath) BY ConnsFinite
<1>i. /\ i \in Int /\ refs \in [Libs -> Int] /\ md_resources \in Seq(Conns)
      /\ io \subseteq Int
  BY <1>l DEF TypeOK
<1>1. CASE Skip
  <2>1. /\ pc = "load" /\ pc' = "load" /\ i' = i + 1 /\ i \in Conns
        /\ UNCHANGED <<md_resources, handleVars, gatewayVars, signalVars>>
    BY <1>1 DEF Skip, NextConn
  <2>2. TypeOK' BY <1>t, <1>l, <2>1 DEF TypeOK
  <2>3. Resources' BY <1>t, <1>l, <1>i, <2>1 DEF Resources, Managed
  <2>4. RunningIs' /\ ReleasedIs' BY <1>t, <2>1 DEF RunningIs, ReleasedIs, Managed
  <2>5. IoBefore' BY <1>i, <1>t, <2>1 DEF IoBefore
  <2>6. RefsCover' BY <2>1, CoverKept DEF Holders
  <2>7. RefsBound' BY <1>i, <2>1 DEF RefsBound
  <2> QED BY <2>2, <2>3, <2>4, <2>5, <2>6, <2>7
<1>2. CASE DlOpen
  <2>1. /\ pc = "load" /\ pc' = "create" /\ i \in Conns
        /\ refs' = [refs EXCEPT ![Lib] = @ + 1]
        /\ UNCHANGED <<i, md_resources, released, gatewayVars, signalVars>>
    BY <1>2 DEF DlOpen, Open
  <2>2. \A l \in Libs : refs'[l] <= i /\ refs'[l] \in 0 .. Len(LibPath)
    BY <1>i, <1>l, <1>t, <2>1 DEF RefsBound, TypeOK
  <2>3. TypeOK' BY <1>t, <1>l, <2>1, <2>2 DEF TypeOK
  <2>4. Resources' BY <1>t, <2>1 DEF Resources, Managed
  <2>5. RunningIs' /\ ReleasedIs' /\ IoBefore'
    BY <1>t, <2>1 DEF RunningIs, ReleasedIs, IoBefore, Managed
  <2>6. RefsCover'
    <3>1. Holders' \subseteq Holders \cup {i} BY <2>1 DEF Holders
    <3> QED BY <2>1, <3>1, CoverOpened DEF Lib
  <2>7. RefsBound' BY <2>1, <2>2 DEF RefsBound
  <2> QED BY <2>3, <2>4, <2>5, <2>6, <2>7
<1>3. CASE LoadDone
  <2>1. /\ pc = "load" /\ pc' = "wait"
        /\ UNCHANGED <<i, md_resources, handleVars, gatewayVars, signalVars>>
    BY <1>3 DEF LoadDone
  <2>2. TypeOK' BY <1>t, <2>1 DEF TypeOK
  <2>3. Resources' BY <1>t, <2>1 DEF Resources, Managed
  <2>4. RunningIs' /\ ReleasedIs' /\ IoBefore'
    BY <1>t, <2>1 DEF RunningIs, ReleasedIs, IoBefore, Managed
  <2>5. RefsCover' BY <2>1, CoverKept DEF Holders
  <2>6. RefsBound' BY <2>1 DEF RefsBound
  <2> QED BY <2>2, <2>3, <2>4, <2>5, <2>6
<1> QED BY <1>1, <1>2, <1>3

\* A connection whose library is open: its gateway is created and started, or it fails.
LEMMA GatewayStep ==
    ASSUME IInv, GiveUp \/ CreateMdlib \/ Throw \/ Initialize \/ Start
    PROVE  IInv'
<1> USE DEF IInv, Shape, signalVars, gatewayVars, handleVars, Loaded, Stopping, Waits
<1>t. TypeOK /\ Resources /\ RunningIs /\ ReleasedIs /\ IoBefore OBVIOUS
<1>l. Len(LibPath) \in Nat /\ Conns = 1 .. Len(LibPath) BY ConnsFinite
<1>p. pc \in Loaded /\ pc # "save" BY DEF GiveUp, CreateMdlib, Throw, Initialize, Start
<1>i. /\ i \in Conns /\ i \in Int /\ refs \in [Libs -> Int] /\ LibPath[i] \in Libs
      /\ md_resources \in Seq(Conns) /\ io \subseteq Int
  BY <1>l, <1>p, RunnerAssumption DEF TypeOK, Resources
<1>m. running = Managed /\ i \notin running /\ released = {}
  <2>1. running = Managed /\ released = {} BY <1>p DEF RunningIs, ReleasedIs
  <2>2. i \notin Managed BY <1>i, <1>l, <1>p DEF Resources, Managed
  <2> QED BY <2>1, <2>2
<1>h. Holders = running \cup io \cup {i} BY <1>m, <1>p DEF Holders
<1>1. CASE GiveUp
  <2>1. /\ pc = "create" /\ pc' = "load" /\ i' = i + 1
        /\ refs' = [refs EXCEPT ![LibPath[i]] = @ - 1]
        /\ UNCHANGED <<md_resources, released, gatewayVars, signalVars>>
    BY <1>1 DEF GiveUp, NextConn, Close, Lib
  <2>2. RefsCover' /\ refs[LibPath[i]] >= 1
    <3>1. i \notin io BY <1>i, <1>t, <2>1 DEF IoBefore
    <3>2. Holders' \subseteq Holders \ {i} BY <1>h, <1>m, <2>1, <3>1 DEF Holders
    <3> QED BY <1>h, <2>1, <3>2, CoverClosed
  <2>3. \A l \in Libs : refs'[l] <= i /\ refs'[l] \in 0 .. Len(LibPath)
    BY <1>i, <1>l, <1>p, <1>t, <2>1, <2>2 DEF RefsBound, TypeOK
  <2>4. TypeOK' BY <1>i, <1>t, <1>l, <2>1, <2>3 DEF TypeOK
  <2>5. Resources' BY <1>i, <1>t, <1>l, <2>1 DEF Resources, Managed
  <2>6. RunningIs' /\ ReleasedIs' BY <1>t, <2>1 DEF RunningIs, ReleasedIs, Managed
  <2>7. IoBefore' BY <1>i, <1>t, <2>1 DEF IoBefore
  <2>8. RefsBound' BY <1>i, <2>1, <2>3 DEF RefsBound
  <2> QED BY <2>2, <2>4, <2>5, <2>6, <2>7, <2>8
<1>2. CASE CreateMdlib
  <2>1. /\ pc = "create" /\ pc' = "init_shm" /\ alive' = alive \cup {i}
        /\ UNCHANGED <<i, md_resources, handleVars, running, io, printing, stuck,
                       signalVars>>
    BY <1>2 DEF CreateMdlib
  <2>2. TypeOK' BY <1>i, <1>t, <2>1 DEF TypeOK
  <2>3. Resources' BY <1>t, <2>1 DEF Resources, Managed
  <2>4. RunningIs' /\ ReleasedIs' /\ IoBefore'
    BY <1>t, <2>1 DEF RunningIs, ReleasedIs, IoBefore, Managed
  <2>5. RefsCover' BY <1>h, <2>1, CoverKept DEF Holders
  <2>6. RefsBound' BY <2>1 DEF RefsBound
  <2> QED BY <2>2, <2>3, <2>4, <2>5, <2>6
<1>3. CASE Throw
  <2>1. /\ pc \in {"create", "init_shm"} /\ pc' = "load" /\ i' = i + 1
        /\ alive' = alive \ {i} /\ io' \subseteq io \cup {i}
        /\ UNCHANGED <<md_resources, handleVars, running, printing, stuck, signalVars>>
    BY <1>3 DEF Throw, NextConn
  <2>2. TypeOK' BY <1>i, <1>l, <1>m, <1>t, <2>1 DEF TypeOK
  <2>3. Resources' BY <1>i, <1>l, <1>t, <2>1 DEF Resources, Managed
  <2>4. RunningIs' /\ ReleasedIs' BY <1>t, <2>1 DEF RunningIs, ReleasedIs, Managed
  <2>5. IoBefore' BY <1>i, <1>t, <2>1 DEF IoBefore
  <2>6. RefsCover'
    <3>1. Holders' \subseteq Holders BY <1>h, <2>1 DEF Holders
    <3> QED BY <2>1, <3>1, CoverKept
  <2>7. RefsBound' BY <1>i, <1>p, <2>1 DEF RefsBound
  <2> QED BY <2>2, <2>3, <2>4, <2>5, <2>6, <2>7
<1>4. CASE Initialize
  <2>1. /\ pc = "init_shm" /\ pc' = "start" /\ io' \subseteq io \cup {i}
        /\ printing' = printing \cup {i}
        /\ UNCHANGED <<i, md_resources, handleVars, alive, running, stuck, signalVars>>
    BY <1>4 DEF Initialize
  <2>2. TypeOK' BY <1>i, <1>t, <2>1 DEF TypeOK
  <2>3. Resources' BY <1>t, <2>1 DEF Resources, Managed
  <2>4. RunningIs' /\ ReleasedIs' BY <1>t, <2>1 DEF RunningIs, ReleasedIs, Managed
  <2>5. IoBefore' BY <1>i, <1>t, <2>1 DEF IoBefore
  <2>6. RefsCover'
    <3>1. Holders' \subseteq Holders BY <1>h, <1>m, <2>1 DEF Holders
    <3> QED BY <2>1, <3>1, CoverKept
  <2>7. RefsBound' BY <2>1 DEF RefsBound
  <2> QED BY <2>2, <2>3, <2>4, <2>5, <2>6, <2>7
<1>5. CASE Start
  <2>1. /\ pc = "start" /\ pc' = "save" /\ running' = running \cup {i}
        /\ UNCHANGED <<i, md_resources, handleVars, alive, io, printing, stuck, signalVars>>
    BY <1>5 DEF Start
  <2>2. TypeOK' BY <1>t, <2>1 DEF TypeOK, Resources
  <2>3. Resources' BY <1>t, <2>1 DEF Resources, Managed
  <2>4. RunningIs' /\ ReleasedIs' /\ IoBefore'
    BY <1>m, <1>t, <2>1 DEF RunningIs, ReleasedIs, IoBefore, Managed
  <2>5. RefsCover'
    <3>1. Holders' \subseteq Holders BY <1>h, <1>m, <2>1 DEF Holders
    <3> QED BY <2>1, <3>1, CoverKept
  <2>6. RefsBound' BY <2>1 DEF RefsBound
  <2> QED BY <2>2, <2>3, <2>4, <2>5, <2>6
<1> QED BY <1>1, <1>2, <1>3, <1>4, <1>5

\* The gateway becomes a resource: the last, different from those before.
LEMMA SaveStep == ASSUME IInv, Save PROVE IInv'
<1> USE DEF IInv, Shape, signalVars, gatewayVars, Stopping, Waits
<1>t. TypeOK /\ Resources /\ RunningIs /\ ReleasedIs /\ IoBefore OBVIOUS
<1>l. Len(LibPath) \in Nat /\ Conns = 1 .. Len(LibPath) BY ConnsFinite
<1>1. /\ pc = "save" /\ pc' = "load" /\ i' = i + 1
      /\ md_resources' = Append(md_resources, i)
      /\ UNCHANGED <<refs, released, gatewayVars, signalVars>>
  BY DEF Save, Keep, ReleaseMoved, NextConn
<1>2. /\ i \in Conns /\ i \in Nat /\ md_resources \in Seq(Conns) /\ Len(md_resources) \in Nat
      /\ refs \in [Libs -> Int] /\ io \subseteq Int
  BY <1>l, <1>t, <1>1 DEF TypeOK, Resources, Loaded
<1>3. /\ DOMAIN md_resources = 1 .. Len(md_resources)
      /\ DOMAIN md_resources' = 1 .. Len(md_resources) + 1
      /\ Len(md_resources') = Len(md_resources) + 1
      /\ \A k \in DOMAIN md_resources : md_resources'[k] = md_resources[k]
      /\ md_resources'[Len(md_resources) + 1] = i
      /\ md_resources' \in Seq(Conns)
  BY <1>1, <1>2
<1>4. /\ \A k \in DOMAIN md_resources : md_resources[k] < i
      /\ \A k \in DOMAIN md_resources : md_resources[k] \in Conns
      /\ Len(md_resources) <= i - 1
  BY <1>1, <1>2 DEF Resources, Loaded
<1>5. Managed' = Managed \cup {i} BY <1>2, <1>3 DEF Managed
<1>6. i \notin Managed BY <1>2, <1>4 DEF Managed
<1>7. TypeOK' BY <1>l, <1>t, <1>1, <1>2, <1>3 DEF TypeOK
<1>8. Resources'
  <2>1. \A j, k \in DOMAIN md_resources' : md_resources'[j] = md_resources'[k] => j = k
    <3>1. \A j, k \in DOMAIN md_resources : md_resources[j] = md_resources[k] => j = k
      BY DEF Resources
    <3>2. \A k \in DOMAIN md_resources : md_resources'[k] # i BY <1>2, <1>3, <1>4, <1>l
    <3> QED BY <1>2, <1>3, <3>1, <3>2
  <2>2. IsFiniteSet(Managed') /\ Cardinality(Managed') = Len(md_resources')
    <3>1. IsFiniteSet(Managed) /\ Cardinality(Managed) = Len(md_resources) BY DEF Resources
    <3> HIDE DEF Managed
    <3>2. /\ IsFiniteSet(Managed \cup {i})
          /\ Cardinality(Managed \cup {i}) = Cardinality(Managed) + 1
      BY <1>6, <3>1, FS_AddElement
    <3> QED BY <1>3, <1>5, <3>1, <3>2
  <2>3. Len(md_resources') <= i' - 1 /\ Len(md_resources') <= Len(LibPath)
    BY <1>l, <1>1, <1>2, <1>3, <1>4
  <2>4. \A k \in DOMAIN md_resources' : md_resources'[k] < i'
    BY <1>l, <1>1, <1>2, <1>3, <1>4
  <2> QED BY <1>1, <2>1, <2>2, <2>3, <2>4 DEF Resources, Loaded
<1>9. RunningIs' /\ ReleasedIs' /\ IoBefore'
  <2>1. RunningIs' BY <1>1, <1>5 DEF RunningIs
  <2>2. ReleasedIs' /\ IoBefore' BY <1>1, <1>2 DEF ReleasedIs, IoBefore, Loaded
  <2> QED BY <2>1, <2>2
<1>10. RefsCover'
  <2>1. Holders' \subseteq Holders BY <1>1 DEF Holders, Loaded
  <2> QED BY <1>1, <2>1, CoverKept
<1>11. RefsBound' BY <1>1, <1>2 DEF RefsBound, Loaded
<1> QED BY <1>7, <1>8, <1>9, <1>10, <1>11

\* The wait, the signals, the print threads and the end of the process change neither
\* handles nor what runs.
LEMMA WaitStep ==
    ASSUME IInv,
           \/ CheckExit \/ Block \/ SpuriousWake \/ Signal \/ Notify
           \/ Die \/ \E c \in Conns : PrintCheck(c)
    PROVE  IInv'
<1> USE DEF IInv, Shape, signalVars, mainVars, gatewayVars, handleVars, Loaded, Stopping, Waits
<1>t. TypeOK /\ Resources /\ RunningIs /\ ReleasedIs /\ IoBefore OBVIOUS
<1>s. UNCHANGED <<md_resources, refs, released, alive, running, io>>
  BY DEF CheckExit, Block, SpuriousWake, Signal, Notify, Die, PrintCheck
<1>1. CASE CheckExit /\ g_should_exit
  <2>1. pc = "wait" /\ pc' = "stop" /\ i' = 1 /\ UNCHANGED <<printing, stuck, signalVars>>
    BY <1>1 DEF CheckExit
  <2>2. 1 \in 1 .. Len(LibPath) + 1 BY ConnsFinite
  <2>3. TypeOK' BY <1>s, <1>t, <2>1, <2>2 DEF TypeOK
  <2>4. Resources' BY <1>s, <1>t, <2>1 DEF Resources, Managed
  <2>5. RunningIs' /\ ReleasedIs' /\ IoBefore'
    <3>1. md_resources \in Seq(Conns) BY DEF TypeOK
    <3>2. DOMAIN md_resources = 1 .. Len(md_resources) BY <3>1
    <3>3. running = Left(1) BY <2>1, <3>2 DEF RunningIs, Managed, Left
    <3>4. RunningIs' BY <1>s, <2>1, <3>3 DEF RunningIs, Left
    <3>5. ReleasedIs' /\ IoBefore' BY <1>s, <1>t, <2>1 DEF ReleasedIs, IoBefore
    <3> QED BY <3>4, <3>5
  <2>6. RefsCover' BY <1>s, <2>1, CoverKept DEF Holders
  <2>7. RefsBound' BY <2>1 DEF RefsBound
  <2> QED BY <2>3, <2>4, <2>5, <2>6, <2>7
<1>2. CASE ~(CheckExit /\ g_should_exit)
  <2>1. /\ i' = i
        /\ \/ pc' = pc
           \/ {pc, pc'} \subseteq Waits
           \/ pc' = "dead"
    BY <1>2 DEF CheckExit, Block, SpuriousWake, Signal, Notify, Die, PrintCheck
  <2>2. TypeOK'
    <3>1. g_should_exit' \in BOOLEAN /\ handler' \in {"idle", "notify"}
      BY DEF CheckExit, Block, SpuriousWake, Signal, Notify, Die, PrintCheck, TypeOK
    <3>2. signals' \in 0 .. MaxSignals
      BY RunnerAssumption
      DEF CheckExit, Block, SpuriousWake, Signal, Notify, Die, PrintCheck, TypeOK
    <3>3. printing' \subseteq Conns /\ stuck' \subseteq Conns
      BY DEF CheckExit, Block, SpuriousWake, Signal, Notify, Die, PrintCheck, TypeOK
    <3> QED BY <1>s, <1>t, <2>1, <3>1, <3>2, <3>3 DEF TypeOK
  <2>3. Resources' BY <1>s, <1>t, <2>1 DEF Resources, Managed
  <2>4. RunningIs' BY <1>s, <1>t, <2>1 DEF RunningIs, Managed, Left
  <2>5. ReleasedIs' /\ IoBefore' BY <1>s, <1>t, <2>1 DEF ReleasedIs, IoBefore, Left
  <2>6. RefsCover'
    <3>1. Holders' \subseteq Holders BY <1>s, <2>1 DEF Holders, Instance
    <3> QED BY <1>s, <3>1, CoverKept
  <2>7. RefsBound' BY <1>s, <2>1 DEF RefsBound
  <2> QED BY <2>2, <2>3, <2>4, <2>5, <2>6, <2>7
<1> QED BY <1>1, <1>2

\* The release of one resource after the other.
LEMMA ReleaseStep ==
    ASSUME IInv, Stop \/ OnStop \/ StopReturns \/ DlClose \/ Destroy \/ Return
    PROVE  IInv'
<1> USE DEF IInv, Shape, signalVars, gatewayVars, handleVars, Loaded, Stopping, Waits
<1>t. TypeOK /\ Resources /\ RunningIs /\ ReleasedIs /\ IoBefore OBVIOUS
<1>l. Len(LibPath) \in Nat /\ Conns = 1 .. Len(LibPath) BY ConnsFinite
<1>i. /\ i \in Int /\ i >= 1 /\ md_resources \in Seq(Conns) /\ Len(md_resources) \in Nat
      /\ DOMAIN md_resources = 1 .. Len(md_resources) /\ refs \in [Libs -> Int]
  BY <1>l, <1>t DEF TypeOK
<1>d. \A j, k \in DOMAIN md_resources : md_resources[j] = md_resources[k] => j = k
  BY DEF Resources
<1>n. i \in DOMAIN md_resources =>
        /\ Instance \notin Left(i + 1) /\ Left(i) = Left(i + 1) \cup {Instance}
        /\ Instance \in Conns
  BY <1>i, <1>d DEF Left, Instance
<1>1. CASE Stop
  <2>1. /\ pc = "stop" /\ pc' = "join_work" /\ i \in DOMAIN md_resources
        /\ running' = running \ {Instance}
        /\ UNCHANGED <<i, md_resources, handleVars, alive, io, printing, stuck, signalVars>>
    BY <1>1 DEF Stop, StopInstance
  <2>2. TypeOK' BY <1>t, <2>1 DEF TypeOK
  <2>3. /\ running = Left(i) /\ running' = Left(i + 1)
        /\ Instance \in running /\ Instance \notin released
    BY <1>n, <1>t, <2>1 DEF RunningIs, ReleasedIs
  <2>4. Resources' BY <1>t, <2>1 DEF Resources, Managed
  <2>5. RunningIs' BY <2>1, <2>3 DEF RunningIs, Left
  <2>6. ReleasedIs' /\ IoBefore' BY <1>t, <2>1 DEF ReleasedIs, IoBefore, Left
  <2>7. RefsCover'
    <3>1. Holders' \subseteq Holders BY <2>1, <2>3 DEF Holders, Instance
    <3> QED BY <2>1, <3>1, CoverKept
  <2>8. RefsBound' BY <2>1 DEF RefsBound
  <2> QED BY <2>2, <2>4, <2>5, <2>6, <2>7, <2>8
<1>2. CASE OnStop \/ StopReturns
  <2>1. /\ pc \in Stopping /\ pc' \in Stopping /\ printing' \subseteq printing
        /\ UNCHANGED <<i, md_resources, handleVars, alive, running, io, stuck, signalVars>>
    BY <1>2 DEF OnStop, StopReturns
  <2>2. TypeOK' BY <1>t, <2>1 DEF TypeOK
  <2>3. Resources' BY <1>t, <2>1 DEF Resources, Managed
  <2>4. RunningIs' BY <1>t, <2>1 DEF RunningIs, Left
  <2>5. ReleasedIs' /\ IoBefore' BY <1>t, <2>1 DEF ReleasedIs, IoBefore, Left
  <2>6. RefsCover'
    <3>1. Holders' \subseteq Holders BY <2>1 DEF Holders, Instance
    <3> QED BY <2>1, <3>1, CoverKept
  <2>7. RefsBound' BY <2>1 DEF RefsBound
  <2> QED BY <2>2, <2>3, <2>4, <2>5, <2>6, <2>7
<1>3. CASE DlClose
  <2>1. /\ pc = "close" /\ pc' = "destroy" /\ i \in DOMAIN md_resources
        /\ refs' = [refs EXCEPT ![LibPath[Instance]] = @ - 1]
        /\ released' = released \cup {Instance}
        /\ UNCHANGED <<i, md_resources, gatewayVars, signalVars>>
    BY <1>3 DEF DlClose, Close, Resources
  <2>2. RefsCover' /\ refs[LibPath[Instance]] >= 1
    <3>1. Instance \in Holders /\ Holders' \subseteq Holders \ {Instance}
      BY <2>1 DEF Holders
    <3> QED BY <2>1, <3>1, CoverClosed
  <2>3. refs' \in [Libs -> 0 .. Len(LibPath)]
    <3>1. \A l \in Libs : refs'[l] \in 0 .. Len(LibPath)
      BY <1>i, <1>l, <1>t, <2>1, <2>2 DEF TypeOK
    <3> QED BY <1>i, <2>1, <3>1
  <2>4. TypeOK' BY <1>n, <1>t, <2>1, <2>3 DEF TypeOK
  <2>5. Resources' BY <1>t, <2>1 DEF Resources, Managed
  <2>6. RunningIs' BY <1>t, <2>1 DEF RunningIs, Left
  <2>7. ReleasedIs' /\ IoBefore' BY <1>n, <1>t, <2>1 DEF ReleasedIs, IoBefore, Left
  <2>8. RefsBound' BY <2>1 DEF RefsBound
  <2> QED BY <2>2, <2>4, <2>5, <2>6, <2>7, <2>8
<1>4. CASE Destroy
  <2>1. /\ pc = "destroy" /\ pc' = "stop" /\ i' = i + 1 /\ i \in DOMAIN md_resources
        /\ alive' = alive \ {Instance}
        /\ UNCHANGED <<md_resources, handleVars, running, io, printing, stuck, signalVars>>
    BY <1>4 DEF Destroy, Resources
  <2>2. running = Left(i + 1) /\ Instance \notin running BY <1>n, <2>1 DEF RunningIs
  <2>3. i' \in 1 .. Len(LibPath) + 1 BY <1>i, <1>l, <2>1 DEF Resources
  <2>4. TypeOK' BY <1>t, <2>1, <2>2, <2>3 DEF TypeOK
  <2>5. Resources' BY <1>t, <2>1 DEF Resources, Managed
  <2>6. RunningIs' BY <2>1, <2>2 DEF RunningIs, Left
  <2>7. ReleasedIs' /\ IoBefore' BY <1>t, <2>1 DEF ReleasedIs, IoBefore, Left
  <2>8. RefsCover' BY <2>1, CoverKept DEF Holders
  <2>9. RefsBound' BY <2>1 DEF RefsBound
  <2> QED BY <2>4, <2>5, <2>6, <2>7, <2>8, <2>9
<1>5. CASE Return
  <2>1. /\ pc = "stop" /\ pc' = "done"
        /\ UNCHANGED <<i, md_resources, handleVars, gatewayVars, signalVars>>
    BY <1>5 DEF Return
  <2>2. TypeOK' BY <1>t, <2>1 DEF TypeOK
  <2>3. Resources' BY <1>t, <2>1 DEF Resources, Managed
  <2>4. RunningIs' /\ ReleasedIs' /\ IoBefore'
    BY <1>t, <2>1 DEF RunningIs, ReleasedIs, IoBefore
  <2>5. RefsCover' BY <2>1, CoverKept DEF Holders
  <2>6. RefsBound' BY <2>1 DEF RefsBound
  <2> QED BY <2>2, <2>3, <2>4, <2>5, <2>6
<1> QED BY <1>1, <1>2, <1>3, <1>4, <1>5

-----------------------------------------------------------------------------
(* The theorems.                                                           *)

\* The inductive invariant of the runner.
THEOREM Invariance == Spec => []IInv
<1>1. ASSUME IInv, [Next]_vars PROVE IInv'
  <2>1. CASE Skip \/ DlOpen \/ LoadDone BY <1>1, <2>1, LoadStep
  <2>2. CASE GiveUp \/ CreateMdlib \/ Throw \/ Initialize \/ Start
    BY <1>1, <2>2, GatewayStep
  <2>3. CASE Save BY <1>1, <2>3, SaveStep
  <2>4. CASE \/ CheckExit \/ Block \/ SpuriousWake \/ Signal \/ Notify
             \/ Die \/ \E c \in Conns : PrintCheck(c)
    BY <1>1, <2>4, WaitStep
  <2>5. CASE Stop \/ OnStop \/ StopReturns \/ DlClose \/ Destroy \/ Return
    BY <1>1, <2>5, ReleaseStep
  <2>6. CASE UNCHANGED vars
    BY <1>1, <2>6 DEF vars, mainVars, handleVars, gatewayVars, signalVars, IInv, Shape, TypeOK,
                      Resources, RunningIs, ReleasedIs, IoBefore, RefsCover, RefsBound,
                      Managed, Left, Holders, Instance, UsersIn
  <2> QED BY <1>1, <2>1, <2>2, <2>3, <2>4, <2>5, <2>6 DEF Next, Main
<1> QED BY InitIInv, <1>1, PTL DEF Spec

\* The variables keep their types; among them, only gateways that exist run, and the
\* references of a library stay between none and one for each connection.
THEOREM TypeCorrect == Spec => []TypeOK
<1>1. IInv => TypeOK BY DEF IInv, Shape
<1> QED BY <1>1, Invariance, PTL

\* Whatever fails to load and whatever is being released, a library has a reference for
\* each gateway of it that runs or has io threads and whose own handle was not closed
\* (mdrunner.cpp:139, 202, 246).
THEOREM MappedUntilRelease == Spec => []MappedUntilReleased
<1>1. ASSUME IInv PROVE MappedUntilReleased
  <2> DEFINE U == (running \cup io) \ released
  <2> SUFFICES ASSUME NEW l \in Libs
               PROVE  refs[l] >= Cardinality({c \in U : LibPath[c] = l})
    BY DEF MappedUntilReleased
  <2>1. refs[l] >= Cardinality(UsersIn(Holders, l)) BY <1>1 DEF IInv, RefsCover
  <2>2. Holders \subseteq Conns /\ U \subseteq Holders /\ U \subseteq Conns
    BY <1>1, HoldersConns DEF IInv, Holders
  <2> HIDE DEF U
  <2>3. Cardinality(UsersIn(U, l)) <= Cardinality(UsersIn(Holders, l))
    BY <2>2, UsersMonotone
  <2>4. Cardinality(UsersIn(U, l)) \in Nat /\ Cardinality(UsersIn(Holders, l)) \in Nat
    BY <2>2, UsersFinite
  <2>5. refs[l] \in Int BY <1>1, ConnsFinite DEF IInv, Shape, TypeOK
  <2>6. UsersIn(U, l) = {c \in U : LibPath[c] = l} BY DEF UsersIn
  <2> QED BY <2>1, <2>3, <2>4, <2>5, <2>6
<1> QED BY <1>1, Invariance, PTL

\* Between two connections and in the wait, the gateways that run are the resources,
\* each of them once (239-244).
THEOREM StartedManaged == Spec => []StartedIsManaged
<1>1. IInv => StartedIsManaged
  BY DEF IInv, Shape, Resources, RunningIs, Managed, Waits, StartedIsManaged
<1> QED BY <1>1, Invariance, PTL
===============================================================================
