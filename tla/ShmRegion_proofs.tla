--------------------------- MODULE ShmRegion_proofs ---------------------------
(***************************************************************************)
(* What a strategy may rely on when it attaches, for any number of         *)
(* strategies, heads and regions and any lists of instruments.  The        *)
(* invariant follows the region the gateway is at work on (Files, Listed,  *)
(* Placed, Shape), what remains of it when the gateway dies (Settled), and *)
(* what each strategy saw of it.                                           *)
(***************************************************************************)
EXTENDS ShmRegion, SequenceTheorems, TLAPS

AtWork == wpc \notin {"remove", "open", "down"}
Naming == wpc \in {"first_word", "rest"}
Last == head[created]

\* The file of the region at work on, and how far create_shm_ptr is with it.
Files ==
    /\ AtWork => created # 0 /\ linked = created
    /\ wpc = "open" => created < MaxRegions
    /\ AtWork /\ wpc # "truncate" => created \in sized
    /\ AtWork /\ wpc \notin {"truncate", "count"} => created \in counted
    /\ \A g \in Regions : g > created => head[g] = NoHeads
    /\ wpc \in {"remove", "open", "truncate", "count", "sentinel"} => inits # 0
    /\ wpc \in {"running", "update"} => inits = 0

\* init_shm takes the instruments of the list in their order.
Listed ==
    inits # 0 /\ wpc \in {"truncate", "count", "zero", "first_word", "rest"} =>
        /\ m_md_num < Len(instruments)
        /\ \A s \in DOMAIN m_address :
              \E k \in 1 .. m_md_num + 1 : s = instruments[k] /\ (k = m_md_num + 1 => Naming)
        /\ wpc \notin {"truncate", "count"} => sym = instruments[m_md_num + 1]

\* m_instruments_address says where the instruments are; the last one may be on its way there.
Placed ==
    /\ wpc \in {"open", "truncate", "count", "down"} => m_md_num = 0 /\ DOMAIN m_address = {}
    /\ \A s \in DOMAIN m_address :
          m_address[s] <= m_md_num /\ (m_address[s] = m_md_num => Naming /\ s = sym)
    /\ Naming => sym \in DOMAIN m_address /\ m_address[sym] = m_md_num
    /\ wpc = "zero" => sym \in Symbols \ DOMAIN m_address
    /\ wpc = "update" => sym \in DOMAIN m_address
    /\ inits = 0 /\ (Naming \/ wpc = "zero") => m_md_num < MaxNum - 1

\* Heads in use, the one that is being named, and those behind it.
Free == IF Naming THEN m_md_num + 1 ELSE m_md_num
Shape ==
    /\ AtWork =>
          /\ \A s \in DOMAIN m_address :
                m_address[s] < m_md_num => Last[m_address[s]].name = Label(s)
          /\ \A k \in Heads : k < m_md_num =>
                Last[k].index >= 0 /\ \E s \in DOMAIN m_address : m_address[s] = k
          /\ \A k \in Heads : k > m_md_num \/ (k = m_md_num /\ wpc # "rest") => Last[k].name = <<>>
          /\ Naming => Last[m_md_num].index = 0
          /\ wpc = "rest" => Last[m_md_num].name = FirstWord(sym)
          /\ wpc = "update" => Last[m_address[sym]].index < MaxUpdates
          /\ wpc = "sentinel" =>
                /\ m_md_num <= tail
                /\ \A k \in Heads : m_md_num <= k /\ k < tail => Last[k].index = -1
          /\ inits = 0 => \A k \in Heads : Free <= k => Last[k].index = -1
    /\ wpc = "remove" =>
          \A s \in DOMAIN m_address : \A k \in Heads :
              Last[k].name = Label(s) => m_address[s] = k

\* A region that was laid out once, whatever became of the gateway.
Settled ==
    /\ created # 0 /\ linked = created /\ created \in sized /\ created \in counted
    /\ Last[MaxNum].index = -1
    /\ \A j, k \in Heads : j < k /\ Last[j].index = -1 => Last[k].index = -1
    /\ \A k \in Heads : Last[k].name # <<>> => Last[k].index >= 0

Ready ==
    /\ inits = 0 \/ fresh # {} => Settled
    /\ fresh # {} => inits = 0 \/ wpc \in {"remove", "down"}

\* The steps of a strategy.
StepsOf(r) ==
    /\ spc[r] \in {"start", "stat", "map", "gone"} <=> at[r] = 0
    /\ spc[r] \in {"start", "stat", "map", "md_buff_num"} => pos[r] = 0
    /\ spc[r] \notin {"load", "attached"} => DOMAIN address[r] = {}
Steps == \A r \in Strategies : StepsOf(r)

\* One that began to attach to a gateway which was ready.
FreshOf(r) ==
    /\ spc[r] \notin {"start", "gone"}
    /\ spc[r] = "map" => statted[r] = "full"
    /\ at[r] # 0 => at[r] = created
    /\ spc[r] = "walk" => pos[r] <= MaxNum
    /\ \A s \in known[r] : \E k \in Heads :
          /\ Last[k].name = Label(s)
          /\ spc[r] \in {"load", "attached"} => k < m_next_empty[r]
          /\ spc[r] = "attached" \/ (spc[r] = "load" /\ k < pos[r]) =>
                Label(s) \in DOMAIN address[r]
Fresh == \A r \in fresh : FreshOf(r)

\* What a strategy has under the name of a symbol is a head of that name.
AddressedOf(r) ==
    at[r] = created =>
        \A s \in Symbols : Label(s) \in DOMAIN address[r] =>
            Last[address[r][Label(s)]].name = Label(s)
Addressed == \A r \in Strategies : AddressedOf(r)

GInv == Files /\ Listed /\ Placed /\ Shape
SInv == Steps /\ Fresh /\ Addressed
IInv == TypeOK /\ GInv /\ Ready /\ SInv

-----------------------------------------------------------------------------
(* Symbols, lists and types.                                               *)

\* What a head holds of a name tells symbols apart, also while it is copied.
LEMMA SymbolFacts ==
    /\ \A s \in Symbols :
          /\ Label(s) # <<>> /\ FirstWord(s) # <<>> /\ Label(s) \in Names /\ FirstWord(s) \in Names
          /\ FirstWord(Label(s)) = FirstWord(s) /\ FirstWord(FirstWord(s)) = FirstWord(s)
          /\ Len(FirstWord(s)) \in Nat /\ Len(Label(s)) \in Nat
          /\ Len(FirstWord(s)) <= Len(Label(s))
    /\ \A s, t \in Symbols : Label(s) = Label(t) \/ Label(s) = FirstWord(t) => s = t
    /\ <<>> \in Names
<1>1. ASSUME NEW s \in Seq(STRING), s # <<>>
      PROVE  /\ Label(s) # <<>> /\ FirstWord(s) # <<>>
             /\ FirstWord(Label(s)) = FirstWord(s) /\ FirstWord(FirstWord(s)) = FirstWord(s)
             /\ Len(FirstWord(s)) \in Nat /\ Len(Label(s)) \in Nat
             /\ Len(FirstWord(s)) <= Len(Label(s))
  <2>1. Len(s) \in Nat /\ Len(s) >= 1 BY <1>1
  <2>2. FirstWord(s) \in Seq(STRING) /\ Len(FirstWord(s)) = 1 /\ FirstWord(s)[1] = s[1]
    BY <2>1 DEF FirstWord
  <2>3. Label(s) \in Seq(STRING) /\ Len(Label(s)) >= 1 /\ Label(s)[1] = s[1]
    <3>1. CASE Len(s) <= 2 BY <2>1, <3>1 DEF Label
    <3>2. CASE Len(s) > 2
      <4>1. SubSeq(s, 1, 2) \in Seq(STRING) /\ Len(SubSeq(s, 1, 2)) = 2 /\ SubSeq(s, 1, 2)[1] = s[1]
        BY <2>1, <3>2
      <4>2. Label(s) = SubSeq(s, 1, 2) BY <2>1, <3>2 DEF Label
      <4> QED BY <4>1, <4>2
    <3> QED BY <2>1, <3>1, <3>2
  <2>4. ASSUME NEW t \in Seq(STRING), NEW u \in Seq(STRING), Len(t) >= 1, Len(u) >= 1, t[1] = u[1]
        PROVE  FirstWord(t) = FirstWord(u)
    <3>1. /\ FirstWord(t) \in Seq(STRING) /\ Len(FirstWord(t)) = 1 /\ FirstWord(t)[1] = t[1]
          /\ FirstWord(u) \in Seq(STRING) /\ Len(FirstWord(u)) = 1 /\ FirstWord(u)[1] = u[1]
      BY <2>4 DEF FirstWord
    <3> QED BY <2>4, <3>1, SeqEqual
  <2>5. FirstWord(Label(s)) = FirstWord(s) /\ FirstWord(FirstWord(s)) = FirstWord(s)
    BY <2>1, <2>2, <2>3, <2>4
  <2>6. Len(<<>>) = 0 /\ Len(FirstWord(s)) # 0 /\ Len(Label(s)) # 0 BY <2>2, <2>3
  <2>7. Len(FirstWord(s)) \in Nat /\ Len(Label(s)) \in Nat BY <2>2, <2>3
  <2>8. Label(s) # <<>> /\ FirstWord(s) # <<>> BY <2>6, Zenon
  <2> QED BY <2>2, <2>3, <2>5, <2>7, <2>8
<1>2. \A s \in Symbols : s \in Seq(STRING) /\ s # <<>> BY ShmRegionAssumption
<1>3. \A s, t \in Symbols : Label(s) = Label(t) \/ Label(s) = FirstWord(t) => s = t
  BY ShmRegionAssumption
<1>4. <<>> \in Names /\ \A s \in Symbols : Label(s) \in Names /\ FirstWord(s) \in Names
  BY DEF Names
<1> QED BY <1>1, <1>2, <1>3, <1>4

LEMMA ListFacts ==
    /\ \A list \in Lists :
          /\ Len(list) \in 1 .. MaxNum
          /\ \A k \in 1 .. Len(list) : list[k] \in Symbols
          /\ \A j, k \in 1 .. Len(list) : list[j] = list[k] => j = k
    /\ MaxNum \in Nat /\ InitsPerRun \in Nat \ {0}
    /\ MaxRegions \in Nat \ {0} /\ MaxUpdates \in Nat \ {0}
BY ShmRegionAssumption

HeadType == [index : -1 .. MaxUpdates, name : Names]
WriterSteps == {"remove", "open", "truncate", "count", "zero", "first_word", "rest",
                "sentinel", "running", "update", "down"}
FileTypes == /\ linked \in {0, created} /\ created \in 0 .. MaxRegions
             /\ counted \subseteq sized /\ sized \subseteq 1 .. created
HeadTypes == head \in [Regions -> [Heads -> HeadType]]
GatewayTypes ==
    /\ wpc \in WriterSteps /\ instruments \in Lists /\ inits \in 0 .. InitsPerRun
    /\ m_md_num \in 0 .. MaxNum /\ tail \in 0 .. MaxNum + 1 /\ sym \in Symbols \cup {<<>>}
    /\ IsMap(m_address, Symbols)
StrategyTypes ==
    /\ spc \in [Strategies -> {"start", "stat", "map", "md_buff_num", "walk",
                               "load", "attached", "gone"}]
    /\ statted \in [Strategies -> {"unset", "garbage", "empty", "full"}]
    /\ at \in [Strategies -> 0 .. created]
    /\ pos \in [Strategies -> 0 .. MaxNum + 1]
    /\ m_next_empty \in [Strategies -> Heads]
    /\ DOMAIN address = Strategies /\ \A r \in Strategies : IsMap(address[r], Names)
    /\ fresh \subseteq Strategies
    /\ known \in [Strategies -> SUBSET Symbols]

LEMMA TypeParts == TypeOK <=> FileTypes /\ HeadTypes /\ GatewayTypes /\ StrategyTypes
BY Zenon DEF TypeOK, FileTypes, HeadTypes, GatewayTypes, StrategyTypes, HeadType, WriterSteps

LEMMA TypePartsPrimed == FileTypes' /\ HeadTypes' /\ GatewayTypes' /\ StrategyTypes' => TypeOK'
BY TypeParts, PTL

LEMMA EmptyHeads == EmptyHead \in HeadType /\ NoHeads \in [Heads -> HeadType]
                    /\ \A k \in Heads : NoHeads[k] = EmptyHead
BY SymbolFacts, ListFacts DEF EmptyHead, NoHeads, HeadType

LEMMA EmptyAddress == DOMAIN NoAddress = {} /\ \A X : IsMap(NoAddress, X)
BY DEF NoAddress, IsMap

LEMMA InitIInv == Init => IInv
<1> SUFFICES ASSUME Init PROVE IInv OBVIOUS
<1> USE DEF Init
<1>1. 0 \in Heads /\ 0 \in 0 .. MaxNum + 1 /\ 0 \in 0 .. MaxRegions /\ 0 \in 0 .. 0
      /\ InitsPerRun \in 0 .. InitsPerRun /\ InitsPerRun # 0 /\ MaxNum \in Nat
  BY ListFacts DEF Heads
<1>2. TypeOK
  <2>1. FileTypes BY <1>1 DEF FileTypes
  <2>2. HeadTypes BY EmptyHeads DEF HeadTypes
  <2>3. GatewayTypes BY <1>1, EmptyAddress DEF GatewayTypes, WriterSteps
  <2>4. StrategyTypes BY <1>1, EmptyAddress DEF StrategyTypes
  <2> QED BY <2>1, <2>2, <2>3, <2>4, TypeParts
<1>3. Files /\ Listed /\ Placed /\ Shape
  BY <1>1, EmptyAddress DEF Files, Listed, Placed, Shape, AtWork, Naming
<1>4. Ready BY <1>1 DEF Ready
<1>5. Steps /\ Fresh /\ Addressed
  BY EmptyAddress DEF Steps, StepsOf, Fresh, FreshOf, Addressed, AddressedOf
<1> QED BY <1>2, <1>3, <1>4, <1>5 DEF IInv, GInv, SInv

-----------------------------------------------------------------------------
(* What the gateway's steps leave to the strategies.                       *)

\* A step of the gateway on its region: no head loses its name.
Kept ==
    /\ created' = created /\ UNCHANGED strategyVars
    /\ \A g \in Regions : g # created => head'[g] = head[g]
    /\ created # 0 => \A k \in Heads : Last[k].name # <<>> =>
          /\ FirstWord(Last'[k].name) = FirstWord(Last[k].name)
          /\ Len(Last'[k].name) >= Len(Last[k].name)
          /\ Last'[k].index >= Last[k].index
          /\ \A s \in Symbols : Last[k].name = Label(s) => Last'[k].name = Label(s)

LEMMA HeadTypeFacts ==
    ASSUME TypeOK, NEW g \in Regions, NEW k \in Heads
    PROVE  head[g][k] \in HeadType /\ head[g][k].index \in Int /\ head[g][k].name \in Names
BY ListFacts DEF TypeOK, HeadType

LEMMA NameLengths ==
    ASSUME NEW n \in Names PROVE Len(n) \in Nat /\ n # <<>> => Len(n) >= 1
BY SymbolFacts DEF Names

LEMMA HeadSet ==
    ASSUME TypeOK, created \in Regions, created' = created,
           NEW k \in Heads, NEW h \in HeadType, SetHead(k, h)
    PROVE  /\ HeadTypes' /\ Last'[k] = h
           /\ \A j \in Heads : j # k => Last'[j] = Last[j]
           /\ \A g \in Regions : g # created => head'[g] = head[g]
BY DEF TypeOK, SetHead, HeadTypes, HeadType, Last

LEMMA StrategiesKept ==
    ASSUME IInv, Kept
    PROVE  StrategyTypes' /\ SInv'
<1>u. UNCHANGED <<created, spc, statted, at, pos, m_next_empty, address, fresh, known>>
  BY DEF Kept, strategyVars
<1>1. TypeOK /\ StrategyTypes BY TypeParts DEF IInv
<1>2. StrategyTypes' BY <1>u, <1>1 DEF StrategyTypes
<1>3. Steps' BY <1>u DEF IInv, SInv, Steps, StepsOf
<1>4. ASSUME created # 0, NEW k \in Heads, NEW s \in Symbols, Last[k].name = Label(s)
      PROVE  Last'[k].name = Label(s)
  BY <1>4, SymbolFacts DEF Kept
<1>5. Addressed'
  <2> SUFFICES ASSUME NEW r \in Strategies, at[r] = created, NEW s \in Symbols,
                      Label(s) \in DOMAIN address[r]
               PROVE  Last'[address[r][Label(s)]].name = Label(s)
    BY <1>u DEF Addressed, AddressedOf
  <2>1. address[r][Label(s)] \in Heads BY <1>1 DEF StrategyTypes, IsMap
  <2>2. Last[address[r][Label(s)]].name = Label(s) BY DEF IInv, SInv, Addressed, AddressedOf
  <2>3. created # 0 BY DEF IInv, SInv, Steps, StepsOf
  <2> QED BY <1>4, <2>1, <2>2, <2>3
<1>6. Fresh'
  <2>1. ASSUME NEW r \in fresh, NEW s \in known[r], NEW k \in Heads, Last[k].name = Label(s)
        PROVE  Last'[k].name = Label(s)
    <3>1. s \in Symbols BY <1>1 DEF StrategyTypes
    <3>2. created # 0 BY DEF IInv, Ready, Settled
    <3> QED BY <1>4, <2>1, <3>1, <3>2
  <2> QED BY <1>u, <2>1 DEF IInv, SInv, Fresh, FreshOf
<1> QED BY <1>2, <1>3, <1>5, <1>6 DEF SInv

\* The gateway's own head of an instrument is the only one of that name.
LEMMA OneHead ==
    ASSUME TypeOK, GInv, created # 0, NEW s \in DOMAIN m_address, NEW k \in Heads,
           Last[k].name = Label(s)
    PROVE  m_address[s] = k
<1>1. CASE wpc \in {"open", "down"} BY <1>1 DEF GInv, Placed
<1>2. CASE wpc = "remove" BY <1>2 DEF GInv, Shape
<1>3. CASE AtWork
  <2>1. s \in Symbols /\ Last[k].name # <<>> BY SymbolFacts DEF TypeOK, IsMap
  <2>2. m_md_num \in Nat /\ MaxNum \in Nat BY ListFacts DEF TypeOK
  <2>3. k < m_md_num \/ (k = m_md_num /\ wpc = "rest")
    BY <1>3, <2>1, <2>2 DEF GInv, Shape, Heads
  <2>4. CASE k < m_md_num
    <3>1. PICK t \in DOMAIN m_address : m_address[t] = k BY <1>3, <2>4 DEF GInv, Shape
    <3>2. Last[k].name = Label(t) BY <1>3, <2>4, <3>1 DEF GInv, Shape
    <3>3. t \in Symbols BY DEF TypeOK, IsMap
    <3> QED BY <2>1, <3>1, <3>2, <3>3, SymbolFacts
  <2>5. CASE k = m_md_num /\ wpc = "rest"
    <3>1. Last[k].name = FirstWord(sym) BY <1>3, <2>5 DEF GInv, Shape
    <3>2. sym \in Symbols /\ m_address[sym] = m_md_num
      BY <2>5 DEF GInv, Placed, Naming, TypeOK, IsMap
    <3> QED BY <2>1, <2>5, <3>1, <3>2, SymbolFacts
  <2> QED BY <2>3, <2>4, <2>5
<1> QED BY <1>1, <1>2, <1>3 DEF AtWork

\* The layout of a region at work on, once it is complete.
LEMMA LaidOut ==
    TypeOK /\ GInv /\ AtWork => (inits = 0 => Settled)
<1> SUFFICES ASSUME TypeOK, GInv, AtWork, inits = 0 PROVE Settled OBVIOUS
<1>1. created \in Regions /\ linked = created /\ created \in sized /\ created \in counted
      /\ created # 0
  BY ListFacts DEF GInv, Files, AtWork, TypeOK, Regions
<1>2. /\ m_md_num \in Nat /\ MaxNum \in Nat /\ m_md_num <= MaxNum /\ Free \in Nat /\ Free <= MaxNum
      /\ (Free = m_md_num \/ (Free = m_md_num + 1 /\ Naming))
  BY ListFacts DEF GInv, Placed, Free, TypeOK
<1>3. \A k \in Heads : Free <= k => Last[k].index = -1 BY DEF GInv, Shape
<1>4. \A k \in Heads : k < Free => Last[k].index \in Int /\ Last[k].index >= 0
  <2>1. \A k \in Heads : k < m_md_num => Last[k].index >= 0 BY DEF GInv, Shape
  <2>2. Naming => Last[m_md_num].index = 0 BY DEF GInv, Shape
  <2>3. \A k \in Heads : Last[k].index \in Int BY <1>1, HeadTypeFacts DEF Last
  <2> QED BY <1>2, <2>1, <2>2, <2>3 DEF Heads
<1>5. MaxNum \in Heads BY <1>2 DEF Heads
<1>6. Last[MaxNum].index = -1 BY <1>2, <1>3, <1>5
<1>7. \A j, k \in Heads : j < k /\ Last[j].index = -1 => Last[k].index = -1
  <2> SUFFICES ASSUME NEW j \in Heads, NEW k \in Heads, j < k, Last[j].index = -1
               PROVE  Last[k].index = -1
    OBVIOUS
  <2>1. ~(j < Free) BY <1>4
  <2> QED BY <1>2, <1>3, <2>1 DEF Heads
<1>8. \A k \in Heads : Last[k].name # <<>> => Last[k].index >= 0
  <2> SUFFICES ASSUME NEW k \in Heads, Last[k].name # <<>> PROVE Last[k].index >= 0 OBVIOUS
  <2>1. ~(k > m_md_num \/ (k = m_md_num /\ wpc # "rest")) BY DEF GInv, Shape
  <2>2. k < Free BY <1>2, <2>1 DEF Heads, Free, Naming
  <2> QED BY <1>4, <2>2
<1> QED BY <1>1, <1>6, <1>7, <1>8 DEF Settled

LEMMA LaidOutPrimed == TypeOK' /\ GInv' /\ AtWork' => (inits = 0 => Settled)'
BY LaidOut, PTL

LEMMA ReadyKept ==
    ASSUME IInv, TypeOK', GInv', AtWork', UNCHANGED fresh, inits' # 0 => inits # 0 /\ AtWork
    PROVE  Ready'
<1>1. inits' # 0 => fresh' = {} BY DEF IInv, Ready, AtWork
<1> QED BY <1>1, LaidOutPrimed DEF Ready

LEMMA HeadSame ==
    ASSUME TypeOK, UNCHANGED <<head, created, strategyVars>>
    PROVE  Kept /\ HeadTypes' /\ Last' = Last
<1>1. created # 0 => created \in Regions BY ListFacts DEF TypeOK, Regions
<1>2. \A n \in Names : Len(n) \in Int BY NameLengths
<1>3. created # 0 => \A k \in Heads : Len(Last[k].name) \in Int /\ Last[k].index \in Int
  BY <1>1, <1>2, HeadTypeFacts DEF Last
<1>4. Last' = Last BY DEF Last
<1> QED BY <1>3, <1>4 DEF Kept, TypeOK, HeadTypes, HeadType

LEMMA WorkGoesOn ==
    ASSUME IInv, Kept, FileTypes', HeadTypes', GatewayTypes', GInv', AtWork',
           inits' # 0 => inits # 0 /\ AtWork
    PROVE  IInv'
<1>1. StrategyTypes' /\ SInv' BY StrategiesKept
<1>2. TypeOK' BY <1>1, TypePartsPrimed
<1>3. UNCHANGED fresh BY DEF Kept, strategyVars
<1>4. Ready' BY <1>2, <1>3, ReadyKept
<1> QED BY <1>1, <1>2, <1>4 DEF IInv

-----------------------------------------------------------------------------
(* create_shm_ptr.                                                         *)

LEMMA RemoveStep == ASSUME IInv, Remove PROVE IInv'
<1>0. TypeOK /\ GInv /\ SInv /\ Ready BY DEF IInv
<1>1. /\ wpc = "remove" /\ wpc' = "open" /\ linked' = 0 /\ created < MaxRegions
      /\ head' = [g \in Regions |-> IF \E r \in Strategies : at[r] = g THEN head[g] ELSE NoHeads]
      /\ m_md_num' = 0 /\ m_address' = NoAddress
      /\ fresh' = {} /\ known' = [r \in Strategies |-> {}]
      /\ UNCHANGED <<created, sized, counted, instruments, inits, tail, sym,
                     spc, statted, at, pos, m_next_empty, address>>
  BY DEF Remove, NewObject
<1>2. inits # 0 BY <1>0, <1>1 DEF GInv, Files
<1>3. TypeOK'
  <2>1. FileTypes' BY <1>0, <1>1, TypeParts DEF FileTypes
  <2>2. HeadTypes' BY <1>0, <1>1, TypeParts, EmptyHeads DEF HeadTypes
  <2>3. 0 \in 0 .. MaxNum BY ListFacts
  <2>4. GatewayTypes' BY <1>0, <1>1, <2>3, TypeParts, EmptyAddress DEF GatewayTypes, WriterSteps
  <2>5. StrategyTypes' BY <1>0, <1>1, TypeParts DEF StrategyTypes
  <2> QED BY <2>1, <2>2, <2>4, <2>5, TypePartsPrimed
<1>4. GInv'
  <2>1. Files' BY <1>0, <1>1, <1>2 DEF GInv, Files, AtWork
  <2>2. Listed' /\ Placed' /\ Shape'
    BY <1>1, <1>2, EmptyAddress DEF Listed, Placed, Shape, AtWork, Naming
  <2> QED BY <2>1, <2>2 DEF GInv
<1>5. Ready' BY <1>1, <1>2 DEF Ready
<1>6. SInv'
  <2>1. Steps' BY <1>0, <1>1 DEF SInv, Steps, StepsOf
  <2>2. Fresh' BY <1>1 DEF Fresh, FreshOf
  <2>3. Addressed'
    <3> SUFFICES ASSUME NEW r \in Strategies, at[r] = created, NEW s \in Symbols,
                        Label(s) \in DOMAIN address[r]
                 PROVE  Last'[address[r][Label(s)]].name = Label(s)
      BY <1>1 DEF Addressed, AddressedOf
    <3>1. created # 0 BY <1>0 DEF SInv, Steps, StepsOf
    <3>2. created \in Regions BY <1>0, <3>1, ListFacts DEF TypeOK, Regions
    <3>3. Last' = Last BY <1>1, <3>2 DEF Last
    <3> QED BY <1>0, <3>3 DEF SInv, Addressed, AddressedOf
  <2> QED BY <2>1, <2>2, <2>3 DEF SInv
<1> QED BY <1>3, <1>4, <1>5, <1>6 DEF IInv

LEMMA OpenStep == ASSUME IInv, Open PROVE IInv'
<1>0. TypeOK /\ GInv /\ SInv /\ Ready BY DEF IInv
<1>1. /\ wpc = "open" /\ wpc' = "truncate" /\ created' = created + 1 /\ linked' = created + 1
      /\ UNCHANGED <<sized, counted, head, instruments, inits, m_md_num, tail, sym, m_address,
                     spc, statted, at, pos, m_next_empty, address, fresh, known>>
  BY DEF Open, strategyVars
<1>2. /\ inits # 0 /\ fresh = {} /\ created < MaxRegions /\ m_md_num = 0 /\ DOMAIN m_address = {}
      /\ created \in Nat /\ MaxRegions \in Nat /\ created' \in Regions
  BY <1>0, <1>1, ListFacts DEF GInv, Files, Placed, Ready, TypeOK, Regions
<1>3. TypeOK'
  <2>1. FileTypes'
    <3>1. 1 .. created \subseteq 1 .. created' BY <1>1, <1>2
    <3> QED BY <1>0, <1>1, <1>2, <3>1, TypeParts DEF FileTypes
  <2>2. HeadTypes' BY <1>0, <1>1, TypeParts DEF HeadTypes
  <2>3. GatewayTypes' BY <1>0, <1>1, TypeParts DEF GatewayTypes, WriterSteps
  <2>4. StrategyTypes'
    <3>1. 0 .. created \subseteq 0 .. created' BY <1>1, <1>2
    <3>2. at' \in [Strategies -> 0 .. created'] BY <1>0, <1>1, <3>1, TypeParts DEF StrategyTypes
    <3> QED BY <1>0, <1>1, <3>2, TypeParts DEF StrategyTypes
  <2> QED BY <2>1, <2>2, <2>3, <2>4, TypePartsPrimed
<1>4. GInv'
  <2>1. Files'
    <3>1. \A g \in Regions : g > created' => head'[g] = NoHeads
      BY <1>0, <1>1, <1>2 DEF GInv, Files, Regions
    <3> QED BY <1>1, <1>2, <3>1 DEF Files, AtWork
  <2>2. Listed'
    <3>1. Len(instruments) > 0 BY <1>0, ListFacts DEF TypeOK
    <3> QED BY <1>1, <1>2, <3>1 DEF Listed
  <2>3. Placed' BY <1>1, <1>2 DEF Placed, Naming
  <2>4. Shape'
    <3>1. created' > created BY <1>1, <1>2
    <3>2. \A k \in Heads : Last'[k].name = <<>>
      BY <1>0, <1>1, <1>2, <3>1, EmptyHeads DEF GInv, Files, Last, EmptyHead
    <3>3. \A k \in Heads : ~(k < 0) BY ListFacts DEF Heads
    <3> QED BY <1>1, <1>2, <3>2, <3>3 DEF Shape, AtWork, Naming
  <2> QED BY <2>1, <2>2, <2>3, <2>4 DEF GInv
<1>5. Ready' BY <1>1, <1>2 DEF Ready
<1>6. SInv'
  <2>1. Steps' BY <1>0, <1>1 DEF SInv, Steps, StepsOf
  <2>2. Fresh' BY <1>1, <1>2 DEF Fresh, FreshOf
  <2>3. \A r \in Strategies : at'[r] # created' BY <1>0, <1>1, <1>2 DEF TypeOK
  <2>4. Addressed' BY <2>3 DEF Addressed, AddressedOf
  <2> QED BY <2>1, <2>2, <2>4 DEF SInv
<1> QED BY <1>3, <1>4, <1>5, <1>6 DEF IInv

LEMMA CreateStep == ASSUME IInv, Truncate \/ SetBuffNum PROVE IInv' /\ Kept
<1>0. TypeOK /\ GInv BY DEF IInv
<1>1. /\ UNCHANGED <<linked, created, head, instruments, inits, m_md_num, tail, m_address>>
      /\ UNCHANGED strategyVars
      /\ wpc \in {"truncate", "count"}
      /\ wpc = "truncate" =>
            sized' = sized \cup {created} /\ counted' = counted /\ sym' = sym /\ wpc' = "count"
      /\ wpc = "count" =>
            sized' = sized /\ counted' = counted \cup {created} /\ sym' = instruments[1]
            /\ wpc' = "zero"
  BY DEF Truncate, SetBuffNum
<1>2. /\ inits # 0 /\ m_md_num = 0 /\ DOMAIN m_address = {} /\ linked = created /\ created # 0
      /\ (wpc = "count" => created \in sized)
  BY <1>0, <1>1 DEF GInv, Files, Placed, AtWork
<1>3. Kept /\ HeadTypes' /\ Last' = Last BY <1>0, <1>1, HeadSame
<1>4. FileTypes' BY <1>0, <1>1, <1>2, TypeParts DEF FileTypes
<1>5. GatewayTypes'
  <2>1. sym' \in Symbols \cup {<<>>} BY <1>0, <1>1, ListFacts DEF TypeOK
  <2> QED BY <1>0, <1>1, <2>1, TypeParts DEF GatewayTypes, WriterSteps
<1>6. GInv'
  <2>1. Files' BY <1>0, <1>1, <1>2 DEF GInv, Files, AtWork
  <2>2. Listed' BY <1>0, <1>1, <1>2 DEF GInv, Listed
  <2>3. Placed'
    <3>1. wpc = "count" => sym' \in Symbols BY <1>0, <1>1, ListFacts DEF TypeOK
    <3> QED BY <1>0, <1>1, <1>2, <3>1 DEF GInv, Placed, Naming
  <2>4. Shape' BY <1>0, <1>1, <1>2, <1>3 DEF GInv, Shape, AtWork, Naming
  <2> QED BY <2>1, <2>2, <2>3, <2>4 DEF GInv
<1>7. AtWork /\ AtWork' BY <1>1 DEF AtWork
<1> QED BY <1>1, <1>2, <1>3, <1>4, <1>5, <1>6, <1>7, WorkGoesOn

-----------------------------------------------------------------------------
(* init_instrument_shm.                                                    *)

\* Where the gateway writes.
LEMMA Room ==
    ASSUME TypeOK, GInv, wpc \in {"zero", "first_word", "rest"}
    PROVE  /\ created \in Regions /\ m_md_num \in Heads /\ m_md_num < MaxNum
           /\ m_md_num \in Nat /\ MaxNum \in Nat /\ AtWork
           /\ sym \in Symbols
<1>1. AtWork BY DEF AtWork
<1>2. created \in Regions BY <1>1, ListFacts DEF GInv, Files, TypeOK, Regions
<1>3. m_md_num \in Nat /\ MaxNum \in Nat /\ inits \in Nat BY ListFacts DEF TypeOK
<1>4. CASE inits = 0 BY <1>1, <1>2, <1>3, <1>4 DEF GInv, Placed, Naming, Heads, TypeOK, IsMap
<1>5. CASE inits # 0
  <2>1. m_md_num < Len(instruments) /\ Len(instruments) \in 1 .. MaxNum
    BY <1>5, ListFacts DEF GInv, Listed, TypeOK
  <2> QED BY <1>1, <1>2, <1>3, <2>1 DEF GInv, Placed, Naming, Heads, TypeOK, IsMap
<1> QED BY <1>4, <1>5

LEMMA ZeroHeadStep == ASSUME IInv, ZeroHead PROVE IInv' /\ Kept
<1>0. TypeOK /\ GInv BY DEF IInv
<1>1. /\ wpc = "zero" /\ wpc' = "first_word"
      /\ m_address' = Insert(m_address, sym, m_md_num)
      /\ SetHead(m_md_num, EmptyHead)
      /\ UNCHANGED <<linked, created, sized, counted, instruments, inits, m_md_num, tail, sym>>
      /\ UNCHANGED strategyVars
  BY DEF ZeroHead, fileVars
<1>2. /\ created \in Regions /\ m_md_num \in Heads /\ m_md_num < MaxNum
      /\ m_md_num \in Nat /\ AtWork /\ sym \in Symbols \ DOMAIN m_address
  BY <1>0, <1>1, Room DEF GInv, Placed
<1>3. /\ HeadTypes' /\ Last'[m_md_num] = EmptyHead
      /\ \A j \in Heads : j # m_md_num => Last'[j] = Last[j]
      /\ \A g \in Regions : g # created => head'[g] = head[g]
  BY <1>0, <1>1, <1>2, EmptyHeads, HeadSet
<1>4. /\ IsMap(m_address', Symbols) /\ DOMAIN m_address' = DOMAIN m_address \cup {sym}
      /\ m_address'[sym] = m_md_num
      /\ \A s \in DOMAIN m_address : s # sym /\ m_address'[s] = m_address[s]
  <2>1. m_address' = [y \in DOMAIN m_address \cup {sym} |->
                          IF y = sym THEN m_md_num ELSE m_address[y]]
    BY <1>1, <1>2 DEF Insert, Assign
  <2>2. DOMAIN m_address \subseteq Symbols /\ m_address \in [DOMAIN m_address -> Heads]
    BY <1>0 DEF TypeOK, IsMap
  <2> QED BY <1>2, <2>1, <2>2 DEF IsMap
<1>5. Last[m_md_num].name = <<>> BY <1>0, <1>1, <1>2 DEF GInv, Shape
<1>6. Kept
  <2>1. \A k \in Heads : Last[k].name # <<>> => Last'[k] = Last[k] BY <1>3, <1>5
  <2>2. \A k \in Heads : Len(Last[k].name) \in Int /\ Last[k].index \in Int
    BY <1>0, <1>2, HeadTypeFacts, NameLengths DEF Last
  <2> QED BY <1>1, <1>3, <2>1, <2>2 DEF Kept
<1>7. FileTypes' BY <1>0, <1>1, TypeParts DEF FileTypes
<1>8. GatewayTypes' BY <1>0, <1>1, <1>4, TypeParts DEF GatewayTypes, WriterSteps
<1>9. GInv'
  <2>1. Files'
    <3>1. \A g \in Regions : g > created' => head'[g] = NoHeads
      BY <1>0, <1>1, <1>2, <1>3 DEF GInv, Files, Regions
    <3> QED BY <1>0, <1>1, <1>2, <3>1 DEF GInv, Files, AtWork
  <2>2. Listed' BY <1>0, <1>1, <1>2, <1>4 DEF GInv, Listed, Naming
  <2>3. Placed' BY <1>0, <1>1, <1>2, <1>4 DEF GInv, Placed, Naming
  <2>4. Shape'
    <3>1. EmptyHead.index = 0 /\ EmptyHead.name = <<>> BY DEF EmptyHead
    <3>2. \A s \in DOMAIN m_address : m_address[s] \in Heads BY <1>0 DEF TypeOK, IsMap
    <3>3. \A s \in DOMAIN m_address' : m_address'[s] < m_md_num' =>
              Last'[m_address'[s]].name = Label(s)
      <4> SUFFICES ASSUME NEW s \in DOMAIN m_address', m_address'[s] < m_md_num
                   PROVE  Last'[m_address'[s]].name = Label(s)
        BY <1>1
      <4>1. s \in DOMAIN m_address /\ m_address'[s] = m_address[s] BY <1>2, <1>4
      <4>2. m_address[s] \in Heads /\ m_address[s] # m_md_num BY <1>2, <3>2, <4>1 DEF Heads
      <4>3. Last[m_address[s]].name = Label(s) BY <1>0, <1>2, <4>1 DEF GInv, Shape
      <4> QED BY <1>3, <4>1, <4>2, <4>3
    <3>4. \A k \in Heads : k < m_md_num' =>
              Last'[k].index >= 0 /\ \E s \in DOMAIN m_address' : m_address'[s] = k
      BY <1>0, <1>1, <1>2, <1>3, <1>4 DEF GInv, Shape, AtWork
    <3>5. \A k \in Heads : k > m_md_num' \/ (k = m_md_num' /\ wpc' # "rest") => Last'[k].name = <<>>
      BY <1>0, <1>1, <1>2, <1>3, <3>1 DEF GInv, Shape, AtWork
    <3>6. Last'[m_md_num'].index = 0 BY <1>1, <1>3, <3>1
    <3>7. inits' = 0 => \A k \in Heads : Free' <= k => Last'[k].index = -1
      BY <1>0, <1>1, <1>2, <1>3 DEF GInv, Shape, AtWork, Free, Naming, Heads
    <3> QED BY <1>1, <3>3, <3>4, <3>5, <3>6, <3>7 DEF Shape
  <2> QED BY <2>1, <2>2, <2>3, <2>4 DEF GInv
<1>10. AtWork' BY <1>1 DEF AtWork
<1> QED BY <1>1, <1>2, <1>3, <1>6, <1>7, <1>8, <1>9, <1>10, WorkGoesOn

\* Steps that write heads change nothing of the files.
LEMMA FilesKept ==
    ASSUME TypeOK, Files, UNCHANGED <<linked, created, sized, counted>>,
           \A g \in Regions : g # created => head'[g] = head[g],
           AtWork, wpc \notin {"truncate", "count"}, wpc' \notin {"open", "truncate", "count"},
           wpc' \in {"remove", "sentinel"} => inits' # 0,
           wpc' \in {"running", "update"} => inits' = 0
    PROVE  Files'
<1>1. \A g \in Regions : g > created' => head'[g] = NoHeads
  BY DEF Files, Regions, TypeOK
<1> QED BY <1>1 DEF Files, AtWork

LEMMA CopyFirstWordStep == ASSUME IInv, CopyFirstWord PROVE IInv' /\ Kept
<1>0. TypeOK /\ GInv BY DEF IInv
<1> DEFINE h == [index |-> 0, name |-> FirstWord(sym)]
<1>1. /\ wpc = "first_word" /\ wpc' = "rest"
      /\ SetHead(m_md_num, h)
      /\ UNCHANGED <<linked, created, sized, counted, instruments, inits, m_md_num, tail, sym,
                     m_address>>
      /\ UNCHANGED strategyVars
  BY DEF CopyFirstWord, fileVars
<1>2. /\ created \in Regions /\ m_md_num \in Heads /\ m_md_num < MaxNum
      /\ m_md_num \in Nat /\ AtWork /\ sym \in Symbols
  BY <1>0, <1>1, Room
<1>h. h \in HeadType /\ h.index = 0 /\ h.name = FirstWord(sym)
  <2>1. 0 \in -1 .. MaxUpdates BY ListFacts
  <2> QED BY <1>2, <2>1, SymbolFacts DEF HeadType
<1> HIDE DEF h
<1>3. /\ HeadTypes' /\ Last'[m_md_num] = h
      /\ \A j \in Heads : j # m_md_num => Last'[j] = Last[j]
      /\ \A g \in Regions : g # created => head'[g] = head[g]
  BY <1>0, <1>1, <1>2, <1>h, HeadSet
<1>5. Last[m_md_num].name = <<>> BY <1>0, <1>1, <1>2 DEF GInv, Shape
<1>6. Kept
  <2>1. \A k \in Heads : Last[k].name # <<>> => Last'[k] = Last[k] BY <1>3, <1>5
  <2>2. \A k \in Heads : Len(Last[k].name) \in Int /\ Last[k].index \in Int
    BY <1>0, <1>2, HeadTypeFacts, NameLengths DEF Last
  <2> QED BY <1>1, <1>3, <2>1, <2>2 DEF Kept
<1>7. FileTypes' BY <1>0, <1>1, TypeParts DEF FileTypes
<1>8. GatewayTypes' BY <1>0, <1>1, TypeParts DEF GatewayTypes, WriterSteps
<1>9. GInv'
  <2>1. Files' BY <1>0, <1>1, <1>2, <1>3, FilesKept DEF GInv
  <2>2. Listed' /\ Placed' BY <1>0, <1>1 DEF GInv, Listed, Placed, Naming
  <2>3. Shape'
    <3>1. \A s \in DOMAIN m_address : m_address[s] \in Heads BY <1>0 DEF TypeOK, IsMap
    <3>2. \A s \in DOMAIN m_address : m_address[s] < m_md_num => Last'[m_address[s]].name = Label(s)
      BY <1>0, <1>2, <1>3, <3>1 DEF GInv, Shape, Heads
    <3>3. \A k \in Heads : k < m_md_num =>
              Last'[k].index >= 0 /\ \E s \in DOMAIN m_address : m_address[s] = k
      BY <1>0, <1>2, <1>3 DEF GInv, Shape
    <3>4. \A k \in Heads : k > m_md_num => Last'[k].name = <<>>
      BY <1>0, <1>2, <1>3 DEF GInv, Shape
    <3>5. Last'[m_md_num].index = 0 /\ Last'[m_md_num].name = FirstWord(sym) BY <1>3, <1>h
    <3>6. inits = 0 => \A k \in Heads : m_md_num + 1 <= k => Last'[k].index = -1
      BY <1>0, <1>1, <1>2, <1>3 DEF GInv, Shape, Free, Naming, Heads
    <3> QED BY <1>1, <3>2, <3>3, <3>4, <3>5, <3>6 DEF Shape, Free, Naming
  <2> QED BY <2>1, <2>2, <2>3 DEF GInv
<1>10. AtWork' BY <1>1 DEF AtWork
<1> QED BY <1>1, <1>2, <1>3, <1>6, <1>7, <1>8, <1>9, <1>10, WorkGoesOn

\* The head is taken: the gateway goes on with the next of the list, the sentinels or the update.
LEMMA CopyRestStep == ASSUME IInv, CopyRest PROVE IInv' /\ Kept
<1>0. TypeOK /\ GInv BY DEF IInv
<1> DEFINE h == [index |-> 0, name |-> Label(sym)]
<1>1. /\ wpc = "rest"
      /\ SetHead(m_md_num, h)
      /\ m_md_num' = m_md_num + 1 /\ tail' = m_md_num + 1
      /\ inits = 0 => wpc' = "update" /\ sym' = sym
      /\ inits # 0 /\ m_md_num + 1 < Len(instruments) =>
            wpc' = "zero" /\ sym' = instruments[m_md_num + 2]
      /\ inits # 0 /\ ~(m_md_num + 1 < Len(instruments)) => wpc' = "sentinel" /\ sym' = sym
      /\ UNCHANGED <<linked, created, sized, counted, instruments, inits, m_address>>
      /\ UNCHANGED strategyVars
  BY DEF CopyRest, fileVars, FirstSentinel
<1>2. /\ created \in Regions /\ m_md_num \in Heads /\ m_md_num < MaxNum
      /\ m_md_num \in Nat /\ MaxNum \in Nat /\ AtWork /\ sym \in Symbols
  BY <1>0, <1>1, Room
<1>h. h \in HeadType /\ h.index = 0 /\ h.name = Label(sym)
  <2>1. 0 \in -1 .. MaxUpdates BY ListFacts
  <2> QED BY <1>2, <2>1, SymbolFacts DEF HeadType
<1> HIDE DEF h
<1>3. /\ HeadTypes' /\ Last'[m_md_num] = h
      /\ \A j \in Heads : j # m_md_num => Last'[j] = Last[j]
      /\ \A g \in Regions : g # created => head'[g] = head[g]
  BY <1>0, <1>1, <1>2, <1>h, HeadSet
<1>4. wpc' \in {"zero", "sentinel", "update"} /\ (wpc' = "update" <=> inits = 0) BY <1>1
<1>5. Last[m_md_num].name = FirstWord(sym) /\ Last[m_md_num].index = 0
  BY <1>0, <1>1, <1>2 DEF GInv, Shape, Naming
<1>6. Kept
  <2>1. \A k \in Heads : Len(Last[k].name) \in Int /\ Last[k].index \in Int
    BY <1>0, <1>2, HeadTypeFacts, NameLengths DEF Last
  <2>2. /\ FirstWord(h.name) = FirstWord(Last[m_md_num].name)
        /\ Len(h.name) >= Len(Last[m_md_num].name)
        /\ h.index >= Last[m_md_num].index
        /\ \A s \in Symbols : Last[m_md_num].name = Label(s) => h.name = Label(s)
    BY <1>2, <1>5, <1>h, SymbolFacts
  <2> QED BY <1>1, <1>3, <2>1, <2>2 DEF Kept
<1>7. FileTypes' BY <1>0, <1>1, TypeParts DEF FileTypes
<1>8. GatewayTypes'
  <2>1. m_md_num' \in 0 .. MaxNum /\ tail' \in 0 .. MaxNum + 1 BY <1>1, <1>2
  <2>2. sym' \in Symbols
    <3>1. \A k \in 1 .. Len(instruments) : instruments[k] \in Symbols BY <1>0, ListFacts DEF TypeOK
    <3>2. Len(instruments) \in Nat BY <1>0, ListFacts DEF TypeOK
    <3>3. m_md_num + 1 < Len(instruments) => m_md_num + 2 \in 1 .. Len(instruments)
      BY <1>2, <3>2
    <3> QED BY <1>1, <1>2, <3>1, <3>3
  <2>3. wpc' \in WriterSteps BY <1>4 DEF WriterSteps
  <2> QED BY <1>0, <1>1, <2>1, <2>2, <2>3, TypeParts DEF GatewayTypes
<1>p. /\ \A s \in DOMAIN m_address : m_address[s] \in Heads /\ m_address[s] < m_md_num'
      /\ sym \in DOMAIN m_address /\ m_address[sym] = m_md_num
  BY <1>0, <1>1, <1>2 DEF GInv, Placed, Naming, TypeOK, IsMap, Heads
<1>9. GInv'
  <2>1. Files'
    <3>1. (wpc' = "sentinel" => inits' # 0) /\ (wpc' = "update" => inits' = 0) BY <1>1, <1>4
    <3> QED BY <1>0, <1>1, <1>2, <1>3, <1>4, <3>1, FilesKept DEF GInv
  <2>l. ASSUME inits # 0
        PROVE  /\ \A s \in DOMAIN m_address : \E k \in 1 .. m_md_num + 1 : s = instruments[k]
               /\ m_md_num < Len(instruments) /\ Len(instruments) \in Nat
    BY <1>0, <1>1, <2>l, ListFacts DEF GInv, Listed, TypeOK
  <2>2. Listed'
    <3> SUFFICES ASSUME inits # 0, wpc' = "zero" PROVE Listed'
      BY <1>1, <1>4 DEF Listed
    <3>1. m_md_num + 1 < Len(instruments) /\ sym' = instruments[m_md_num' + 1] BY <1>1, <1>2
    <3>2. \A s \in DOMAIN m_address :
              \E k \in 1 .. m_md_num' + 1 : s = instruments[k] /\ k # m_md_num' + 1
      <4>1. \A k \in 1 .. m_md_num + 1 : k \in 1 .. m_md_num' + 1 /\ k # m_md_num' + 1
        BY <1>1, <1>2
      <4> QED BY <2>l, <4>1
    <3> QED BY <1>1, <3>1, <3>2 DEF Listed
  <2>3. Placed'
    <3>1. wpc' = "zero" => sym' \in Symbols \ DOMAIN m_address'
      <4> SUFFICES ASSUME wpc' = "zero" PROVE sym' \in Symbols \ DOMAIN m_address
        BY <1>1
      <4>1. /\ inits # 0 /\ m_md_num + 1 < Len(instruments) /\ sym' = instruments[m_md_num + 2]
        BY <1>1, <1>4
      <4>2. /\ m_md_num + 2 \in 1 .. Len(instruments)
            /\ \A k \in 1 .. m_md_num + 1 : k \in 1 .. Len(instruments) /\ k # m_md_num + 2
        BY <1>2, <2>l, <4>1
      <4>3. /\ \A k \in 1 .. Len(instruments) : instruments[k] \in Symbols
            /\ \A j, k \in 1 .. Len(instruments) : instruments[j] = instruments[k] => j = k
        BY <1>0, ListFacts DEF TypeOK
      <4> QED BY <2>l, <4>1, <4>2, <4>3
    <3>2. wpc' = "update" => sym' \in DOMAIN m_address BY <1>1, <1>4, <1>p
    <3>3. wpc' = "zero" => inits' # 0 BY <1>1, <1>4
    <3>4. \A s \in DOMAIN m_address : m_address[s] <= m_md_num' /\ m_address[s] # m_md_num'
      BY <1>1, <1>2, <1>p DEF Heads
    <3> QED BY <1>1, <1>4, <3>1, <3>2, <3>3, <3>4 DEF Placed, Naming
  <2>4. Shape'
    <3>1. \A s \in DOMAIN m_address : Last'[m_address[s]].name = Label(s)
      <4> SUFFICES ASSUME NEW s \in DOMAIN m_address PROVE Last'[m_address[s]].name = Label(s)
        OBVIOUS
      <4>1. CASE m_address[s] = m_md_num
        <5>1. s = sym BY <1>0, <4>1 DEF GInv, Placed
        <5> QED BY <1>3, <1>h, <4>1, <5>1
      <4>2. CASE m_address[s] # m_md_num
        <5>1. m_address[s] < m_md_num BY <1>1, <1>2, <1>p, <4>2 DEF Heads
        <5> QED BY <1>0, <1>2, <1>3, <1>p, <4>2, <5>1 DEF GInv, Shape
      <4> QED BY <4>1, <4>2
    <3>2. \A k \in Heads : k < m_md_num' =>
              Last'[k].index >= 0 /\ \E s \in DOMAIN m_address : m_address[s] = k
      <4> SUFFICES ASSUME NEW k \in Heads, k < m_md_num'
                   PROVE  Last'[k].index >= 0 /\ \E s \in DOMAIN m_address : m_address[s] = k
        OBVIOUS
      <4>1. CASE k = m_md_num BY <1>3, <1>h, <1>p, <4>1
      <4>2. CASE k < m_md_num
        <5>1. Last[k].index >= 0 /\ \E s \in DOMAIN m_address : m_address[s] = k
          BY <1>0, <1>2, <4>2 DEF GInv, Shape
        <5>2. k # m_md_num BY <1>2, <4>2 DEF Heads
        <5> QED BY <1>3, <5>1, <5>2
      <4> QED BY <1>1, <1>2, <4>1, <4>2 DEF Heads
    <3>3. \A k \in Heads : k >= m_md_num' => Last'[k].name = <<>>
      <4> SUFFICES ASSUME NEW k \in Heads, k >= m_md_num' PROVE Last'[k].name = <<>> OBVIOUS
      <4>1. k > m_md_num BY <1>1, <1>2 DEF Heads
      <4> QED BY <1>0, <1>2, <1>3, <4>1 DEF GInv, Shape
    <3>4. inits = 0 => \A k \in Heads : m_md_num' <= k => Last'[k].index = -1
      <4> SUFFICES ASSUME inits = 0, NEW k \in Heads, m_md_num' <= k PROVE Last'[k].index = -1
        OBVIOUS
      <4>1. Free <= k /\ k # m_md_num BY <1>1, <1>2 DEF Free, Naming, Heads
      <4> QED BY <1>0, <1>2, <1>3, <4>1 DEF GInv, Shape
    <3>5. \A k \in Heads : ~(m_md_num' <= k /\ k < tail') BY <1>1, <1>2 DEF Heads
    <3>6. \A k \in Heads : k > m_md_num' => k >= m_md_num' BY <1>1, <1>2 DEF Heads
    <3>7. m_md_num' <= tail' BY <1>1, <1>2
    <3>8. wpc' = "update" => Last'[m_address'[sym']].index < MaxUpdates
      <4>1. 0 < MaxUpdates BY ListFacts
      <4> QED BY <1>1, <1>3, <1>4, <1>h, <1>p, <4>1
    <3> QED BY <1>1, <1>4, <3>1, <3>2, <3>3, <3>4, <3>5, <3>6, <3>7, <3>8 DEF Shape, Free, Naming
  <2> QED BY <2>1, <2>2, <2>3, <2>4 DEF GInv
<1>10. AtWork' BY <1>4 DEF AtWork
<1> QED BY <1>1, <1>2, <1>3, <1>6, <1>7, <1>8, <1>9, <1>10, WorkGoesOn
-----------------------------------------------------------------------------
(* The sentinels, the updates, and the death of the gateway.               *)

\* The next sentinel.
LEMMA SentinelWritten == ASSUME IInv, Sentinel, tail <= LastSentinel PROVE IInv' /\ Kept
<1>0. TypeOK /\ GInv BY DEF IInv
<1> DEFINE h == [Last[tail] EXCEPT !.index = -1]
<1>1. /\ wpc = "sentinel" /\ wpc' = wpc /\ SetHead(tail, h) /\ tail' = tail + 1
      /\ UNCHANGED <<linked, created, sized, counted, instruments, inits, m_md_num, sym, m_address>>
      /\ UNCHANGED strategyVars
  BY DEF Sentinel, fileVars, NextHead, Last
<1>2. /\ AtWork /\ inits # 0 /\ created \in Regions /\ tail \in Heads /\ m_md_num <= tail
      /\ m_md_num \in Nat /\ tail \in Nat /\ MaxNum \in Nat
  <2>1. AtWork BY <1>1 DEF AtWork
  <2>2. created \in Regions BY <1>0, <2>1, ListFacts DEF GInv, Files, TypeOK, Regions
  <2>3. m_md_num \in Nat /\ tail \in Nat /\ MaxNum \in Nat BY <1>0, ListFacts DEF TypeOK
  <2>4. tail \in Heads BY <2>3 DEF Heads, LastSentinel
  <2> QED BY <1>0, <1>1, <2>1, <2>2, <2>3, <2>4 DEF GInv, Files, Shape
<1>3. Last[tail] \in HeadType BY <1>0, <1>2, HeadTypeFacts DEF Last
<1>4. h \in HeadType /\ h.index = -1 /\ h.name = Last[tail].name
  <2>1. -1 \in -1 .. MaxUpdates BY ListFacts
  <2> QED BY <1>3, <2>1 DEF HeadType
<1> HIDE DEF h
<1>5. /\ HeadTypes' /\ Last'[tail] = h
      /\ \A j \in Heads : j # tail => Last'[j] = Last[j]
      /\ \A g \in Regions : g # created => head'[g] = head[g]
  BY <1>0, <1>1, <1>2, <1>4, HeadSet
<1>6. Last[tail].name = <<>>
  <2>1. \A k \in Heads : k > m_md_num \/ k = m_md_num => Last[k].name = <<>>
    BY <1>0, <1>1, <1>2 DEF GInv, Shape
  <2>2. tail > m_md_num \/ tail = m_md_num BY <1>2
  <2> QED BY <1>2, <2>1, <2>2
<1>7. Kept
  <2>1. \A k \in Heads : Last[k].name # <<>> => Last'[k] = Last[k] BY <1>5, <1>6
  <2>2. \A k \in Heads : Len(Last[k].name) \in Int /\ Last[k].index \in Int
    BY <1>0, <1>2, HeadTypeFacts, NameLengths DEF Last
  <2> QED BY <1>1, <1>5, <2>1, <2>2 DEF Kept
<1>8. FileTypes' BY <1>0, <1>1, TypeParts DEF FileTypes
<1>9. GatewayTypes'
  <2>1. tail' \in 0 .. MaxNum + 1 BY <1>1, <1>2 DEF Heads
  <2> QED BY <1>0, <1>1, <2>1, TypeParts DEF GatewayTypes
<1>10. GInv'
  <2>1. Files' BY <1>0, <1>1, <1>2, <1>5, FilesKept DEF GInv
  <2>2. Listed' BY <1>1 DEF Listed
  <2>3. Placed' BY <1>0, <1>1 DEF GInv, Placed, Naming
  <2>4. Shape'
    <3>1. \A k \in Heads : k < m_md_num => k # tail BY <1>2 DEF Heads
    <3>2. \A s \in DOMAIN m_address : m_address[s] \in Heads BY <1>0 DEF TypeOK, IsMap
    <3>3. \A s \in DOMAIN m_address : m_address[s] < m_md_num => Last'[m_address[s]].name = Label(s)
      <4> SUFFICES ASSUME NEW s \in DOMAIN m_address, m_address[s] < m_md_num
                   PROVE  Last'[m_address[s]].name = Label(s)
        OBVIOUS
      <4>1. Last[m_address[s]].name = Label(s) BY <1>0, <1>2 DEF GInv, Shape
      <4> QED BY <1>5, <3>1, <3>2, <4>1
    <3>4. \A k \in Heads : k < m_md_num =>
              Last'[k].index >= 0 /\ \E s \in DOMAIN m_address : m_address[s] = k
      <4> SUFFICES ASSUME NEW k \in Heads, k < m_md_num
                   PROVE  Last'[k].index >= 0 /\ \E s \in DOMAIN m_address : m_address[s] = k
        OBVIOUS
      <4>1. Last[k].index >= 0 /\ \E s \in DOMAIN m_address : m_address[s] = k
        BY <1>0, <1>2 DEF GInv, Shape
      <4> QED BY <1>5, <3>1, <4>1
    <3>5. \A k \in Heads : k > m_md_num \/ k = m_md_num => Last'[k].name = <<>>
      BY <1>0, <1>1, <1>2, <1>4, <1>5, <1>6 DEF GInv, Shape
    <3>6. m_md_num <= tail' /\ \A k \in Heads : m_md_num <= k /\ k < tail' => Last'[k].index = -1
      <4>1. m_md_num <= tail' /\ \A k \in Heads : k < tail' => k < tail \/ k = tail
        BY <1>1, <1>2 DEF Heads
      <4>2. \A k \in Heads : m_md_num <= k /\ k < tail => Last[k].index = -1
        BY <1>0, <1>1, <1>2 DEF GInv, Shape
      <4>3. \A k \in Heads : k < tail => k # tail BY <1>2 DEF Heads
      <4> QED BY <1>4, <1>5, <4>1, <4>2, <4>3
    <3> QED BY <1>1, <1>2, <3>3, <3>4, <3>5, <3>6 DEF Shape, Naming
  <2> QED BY <2>1, <2>2, <2>3, <2>4 DEF GInv
<1>11. AtWork' BY <1>1 DEF AtWork
<1> QED BY <1>1, <1>2, <1>7, <1>5, <1>8, <1>9, <1>10, <1>11, WorkGoesOn

\* The loop is over: the gateway runs, or its constructor is done and it starts again.
LEMMA SentinelsDone == ASSUME IInv, Sentinel, ~(tail <= LastSentinel) PROVE IInv' /\ Kept
<1>0. TypeOK /\ GInv BY DEF IInv
<1>1. /\ wpc = "sentinel" /\ inits' = inits - 1
      /\ wpc' = IF inits = 1 THEN "running" ELSE "remove"
      /\ UNCHANGED <<linked, created, sized, counted, head, instruments, m_md_num, tail, sym,
                     m_address>>
      /\ UNCHANGED strategyVars
  BY DEF Sentinel, fileVars
<1>2. /\ AtWork /\ inits # 0 /\ inits \in Nat /\ InitsPerRun \in Nat /\ inits <= InitsPerRun
      /\ m_md_num \in Nat /\ tail \in Nat /\ MaxNum \in Nat /\ tail = MaxNum + 1
  <2>1. AtWork /\ inits # 0 BY <1>0, <1>1 DEF GInv, Files, AtWork
  <2>2. /\ inits \in 0 .. InitsPerRun /\ m_md_num \in 0 .. MaxNum /\ tail \in 0 .. MaxNum + 1
    BY <1>0 DEF TypeOK
  <2>3. MaxNum \in Nat /\ InitsPerRun \in Nat BY ListFacts
  <2> QED BY <2>1, <2>2, <2>3 DEF LastSentinel
<1>3. Kept /\ HeadTypes' /\ Last' = Last BY <1>0, <1>1, HeadSame
<1>4. FileTypes' BY <1>0, <1>1, TypeParts DEF FileTypes
<1>5. GatewayTypes'
  <2>1. inits' \in 0 .. InitsPerRun BY <1>1, <1>2
  <2> QED BY <1>0, <1>1, <2>1, TypeParts DEF GatewayTypes, WriterSteps
<1>6. \A k \in Heads : m_md_num <= k => Last[k].index = -1
  BY <1>0, <1>1, <1>2 DEF GInv, Shape, Heads
<1>7. GInv'
  <2>1. wpc' = "running" <=> inits' = 0 BY <1>1, <1>2
  <2>2. Files' BY <1>0, <1>1, <1>2, <2>1 DEF GInv, Files, AtWork
  <2>3. Listed' BY <1>1 DEF Listed
  <2>4. Placed' BY <1>0, <1>1 DEF GInv, Placed, Naming
  <2>5. Shape'
    <3>1. wpc' \in {"running", "remove"} BY <1>1
    <3>2. created # 0 BY <1>0, <1>2 DEF GInv, Files
    <3>3. \A s \in DOMAIN m_address : \A k \in Heads : Last[k].name = Label(s) => m_address[s] = k
      BY <1>0, <3>2, OneHead
    <3> QED BY <1>0, <1>1, <1>2, <1>3, <1>6, <3>1, <3>3 DEF GInv, Shape, Naming, AtWork, Free
  <2> QED BY <2>2, <2>3, <2>4, <2>5 DEF GInv
<1>8. CASE inits = 1
  <2>1. AtWork' BY <1>1, <1>8 DEF AtWork
  <2> QED BY <1>2, <1>3, <1>4, <1>5, <1>7, <2>1, WorkGoesOn
<1>9. CASE inits # 1
  <2>1. StrategyTypes' /\ SInv' BY <1>3, StrategiesKept
  <2>2. TypeOK' BY <1>3, <1>4, <1>5, <2>1, TypePartsPrimed
  <2>3. inits' # 0 BY <1>1, <1>2, <1>9
  <2>4. fresh' = {} BY <1>1, <1>2 DEF IInv, Ready, AtWork, strategyVars
  <2>5. Ready' BY <2>3, <2>4 DEF Ready
  <2> QED BY <1>3, <1>7, <2>1, <2>2, <2>5 DEF IInv
<1> QED BY <1>8, <1>9

LEMMA SentinelStep == ASSUME IInv, Sentinel PROVE IInv' /\ Kept
BY SentinelWritten, SentinelsDone

\* An instrument that has no head is given the first free one.
LEMMA OnRtnDataStep == ASSUME IInv, NEW s \in Symbols, OnRtnData(s) PROVE IInv' /\ Kept
<1>0. TypeOK /\ GInv BY DEF IInv
<1>1. /\ wpc = "running" /\ sym' = s
      /\ s \in DOMAIN m_address => wpc' = "update" /\ Last[m_address[s]].index < MaxUpdates
      /\ s \notin DOMAIN m_address => wpc' = "zero" /\ m_md_num < MaxNum - 1
      /\ UNCHANGED <<linked, created, sized, counted, head, instruments, inits, m_md_num, tail,
                     m_address>>
      /\ UNCHANGED strategyVars
  BY DEF OnRtnData, fileVars, HasRoom, Last
<1>2. AtWork /\ AtWork' /\ inits = 0 /\ wpc' \in {"update", "zero"}
  BY <1>0, <1>1 DEF AtWork, GInv, Files
<1>3. Kept /\ HeadTypes' /\ Last' = Last BY <1>0, <1>1, HeadSame
<1>4. FileTypes' BY <1>0, <1>1, TypeParts DEF FileTypes
<1>5. GatewayTypes' BY <1>0, <1>1, <1>2, TypeParts DEF GatewayTypes, WriterSteps
<1>6. GInv'
  <2>1. Files' BY <1>0, <1>1, <1>2, FilesKept DEF GInv
  <2>2. Listed' BY <1>1, <1>2 DEF Listed
  <2>3. Placed' BY <1>0, <1>1, <1>2 DEF GInv, Placed, Naming
  <2>4. Shape' BY <1>0, <1>1, <1>2, <1>3 DEF GInv, Shape, Naming, Free
  <2> QED BY <2>1, <2>2, <2>3, <2>4 DEF GInv
<1> QED BY <1>1, <1>2, <1>3, <1>4, <1>5, <1>6, WorkGoesOn

\* current_index is moved on.
LEMMA UpdateStep == ASSUME IInv, Update PROVE IInv' /\ Kept
<1>0. TypeOK /\ GInv BY DEF IInv
<1> DEFINE k == m_address[sym]
           h == [Last[k] EXCEPT !.index = Last[k].index + 1]
<1>1. /\ wpc = "update" /\ wpc' = "running" /\ SetHead(k, h)
      /\ UNCHANGED <<linked, created, sized, counted, instruments, inits, m_md_num, tail, sym,
                     m_address>>
      /\ UNCHANGED strategyVars
  BY DEF Update, fileVars, Last
<1>2. /\ AtWork /\ AtWork' /\ inits = 0 /\ created \in Regions
      /\ m_md_num \in Nat /\ MaxNum \in Nat /\ MaxUpdates \in Nat
  <2>1. AtWork /\ AtWork' BY <1>1 DEF AtWork
  <2>2. created \in Regions BY <1>0, <2>1, ListFacts DEF GInv, Files, TypeOK, Regions
  <2> QED BY <1>0, <1>1, <2>1, <2>2, ListFacts DEF GInv, Files, TypeOK
<1>3. /\ sym \in DOMAIN m_address /\ k \in Heads /\ k < m_md_num /\ k \in Int
  <2>1. sym \in DOMAIN m_address BY <1>0, <1>1 DEF GInv, Placed
  <2>2. k \in Heads /\ k \in Int BY <1>0, <1>2, <2>1 DEF TypeOK, IsMap, Heads
  <2>3. k <= m_md_num /\ k # m_md_num BY <1>0, <1>1, <2>1 DEF GInv, Placed, Naming
  <2> QED BY <1>2, <2>1, <2>2, <2>3
<1>4. Last[k].index >= 0 /\ Last[k].index < MaxUpdates
  BY <1>0, <1>1, <1>2, <1>3 DEF GInv, Shape
<1> HIDE DEF k
<1>5. Last[k] \in HeadType /\ Last[k].index \in Int /\ Last[k].name \in Names
  BY <1>0, <1>2, <1>3, HeadTypeFacts DEF Last
<1>6. h \in HeadType /\ h.name = Last[k].name /\ h.index = Last[k].index + 1
  <2>1. Last[k].index + 1 \in -1 .. MaxUpdates BY <1>2, <1>4, <1>5
  <2> QED BY <1>5, <2>1 DEF HeadType
<1> HIDE DEF h
<1>7. /\ HeadTypes' /\ Last'[k] = h
      /\ \A j \in Heads : j # k => Last'[j] = Last[j]
      /\ \A g \in Regions : g # created => head'[g] = head[g]
  BY <1>0, <1>1, <1>2, <1>3, <1>6, HeadSet
<1>8. \A j \in Heads : Last'[j].name = Last[j].name BY <1>6, <1>7
<1>9. \A j \in Heads : Last'[j].index >= Last[j].index
  <2>1. \A j \in Heads : Last[j].index \in Int BY <1>0, <1>2, HeadTypeFacts DEF Last
  <2> QED BY <1>6, <1>7, <2>1
<1>10. Kept
  <2>1. \A j \in Heads : Len(Last[j].name) \in Int
    BY <1>0, <1>2, HeadTypeFacts, NameLengths DEF Last
  <2>2. \A j \in Heads : Len(Last'[j].name) >= Len(Last[j].name) BY <1>8, <2>1
  <2> QED BY <1>1, <1>7, <1>8, <1>9, <2>2 DEF Kept
<1>11. FileTypes' BY <1>0, <1>1, TypeParts DEF FileTypes
<1>12. GatewayTypes' BY <1>0, <1>1, TypeParts DEF GatewayTypes, WriterSteps
<1>13. GInv'
  <2>1. Files' BY <1>0, <1>1, <1>2, <1>7, FilesKept DEF GInv
  <2>2. Listed' BY <1>1, <1>2 DEF Listed
  <2>3. Placed' BY <1>0, <1>1 DEF GInv, Placed, Naming
  <2>4. Shape'
    <3>1. \A s \in DOMAIN m_address : m_address[s] \in Heads BY <1>0 DEF TypeOK, IsMap
    <3>2. \A s \in DOMAIN m_address : m_address[s] < m_md_num => Last'[m_address[s]].name = Label(s)
      BY <1>0, <1>2, <1>8, <3>1 DEF GInv, Shape
    <3>3. \A j \in Heads : j < m_md_num =>
              Last'[j].index >= 0 /\ \E s \in DOMAIN m_address : m_address[s] = j
      <4> SUFFICES ASSUME NEW j \in Heads, j < m_md_num
                   PROVE  Last'[j].index >= 0 /\ \E s \in DOMAIN m_address : m_address[s] = j
        OBVIOUS
      <4>1. Last[j].index >= 0 /\ \E s \in DOMAIN m_address : m_address[s] = j
        BY <1>0, <1>2 DEF GInv, Shape
      <4>2. Last'[j].index >= 0
        <5>1. CASE j = k BY <1>4, <1>5, <1>6, <1>7, <5>1
        <5>2. CASE j # k BY <1>7, <4>1, <5>2
        <5> QED BY <5>1, <5>2
      <4> QED BY <4>1, <4>2
    <3>4. \A j \in Heads : j > m_md_num \/ j = m_md_num => Last'[j].name = <<>>
      BY <1>0, <1>1, <1>2, <1>8 DEF GInv, Shape
    <3>5. \A j \in Heads : m_md_num <= j => Last'[j].index = -1
      <4> SUFFICES ASSUME NEW j \in Heads, m_md_num <= j PROVE Last'[j].index = -1 OBVIOUS
      <4>1. j # k BY <1>2, <1>3 DEF Heads
      <4>2. Last[j].index = -1 BY <1>0, <1>1, <1>2 DEF GInv, Shape, Free, Naming
      <4> QED BY <1>7, <4>1, <4>2
    <3> QED BY <1>1, <3>2, <3>3, <3>4, <3>5 DEF Shape, Free, Naming
  <2> QED BY <2>1, <2>2, <2>3, <2>4 DEF GInv
<1> QED BY <1>1, <1>2, <1>7, <1>10, <1>11, <1>12, <1>13, WorkGoesOn

\* The gateway's process ends and begins: the files stay as they are.
LEMMA DownStep == ASSUME IInv, Crash \/ Restart PROVE IInv' /\ Kept
<1>0. TypeOK /\ GInv /\ Ready BY DEF IInv
<1>1. /\ UNCHANGED <<linked, created, sized, counted, head, tail, sym>>
      /\ UNCHANGED strategyVars
      /\ \/ wpc' = "down" /\ m_md_num' = 0 /\ m_address' = NoAddress
            /\ UNCHANGED <<instruments, inits>>
         \/ wpc = "down" /\ wpc' = "remove" /\ instruments' \in Lists /\ inits' = InitsPerRun
            /\ UNCHANGED <<m_md_num, m_address>>
  BY DEF Crash, Restart, NewObject, fileVars
<1>2. InitsPerRun \in Nat /\ InitsPerRun # 0 /\ MaxNum \in Nat BY ListFacts
<1>3. Kept /\ HeadTypes' /\ Last' = Last BY <1>0, <1>1, HeadSame
<1>4. FileTypes' BY <1>0, <1>1, TypeParts DEF FileTypes
<1>5. GatewayTypes'
  <2>1. InitsPerRun \in 0 .. InitsPerRun /\ 0 \in 0 .. MaxNum BY <1>2
  <2> QED BY <1>0, <1>1, <2>1, TypeParts, EmptyAddress DEF GatewayTypes, WriterSteps
<1>6. GInv'
  <2>1. Files' BY <1>0, <1>1, <1>2 DEF GInv, Files, AtWork
  <2>2. Listed' BY <1>1 DEF Listed
  <2>3. Placed' BY <1>0, <1>1, <1>2, EmptyAddress DEF GInv, Placed, Naming
  <2>4. wpc = "down" => DOMAIN m_address = {} BY <1>0 DEF GInv, Placed
  <2>5. Shape' BY <1>1, <2>4 DEF Shape, AtWork
  <2> QED BY <2>1, <2>2, <2>3, <2>5 DEF GInv
<1>7. StrategyTypes' /\ SInv' BY <1>3, StrategiesKept
<1>8. Ready'
  <2>1. UNCHANGED fresh BY <1>1 DEF strategyVars
  <2>2. Settled => Settled' BY <1>1, <1>3 DEF Settled
  <2>3. inits' = 0 => inits = 0 BY <1>1, <1>2
  <2> QED BY <1>0, <1>1, <2>1, <2>2, <2>3 DEF Ready
<1>9. TypeOK' BY <1>3, <1>4, <1>5, <1>7, TypePartsPrimed
<1> QED BY <1>3, <1>6, <1>7, <1>8, <1>9 DEF IInv

-----------------------------------------------------------------------------
(* A strategy.                                                             *)

OthersKept(r) ==
    \A q \in Strategies \ {r} :
        /\ spc'[q] = spc[q] /\ statted'[q] = statted[q] /\ at'[q] = at[q] /\ pos'[q] = pos[q]
        /\ m_next_empty'[q] = m_next_empty[q] /\ address'[q] = address[q]
        /\ (q \in fresh' <=> q \in fresh) /\ known'[q] = known[q]

LEMMA GatewayStays ==
    ASSUME IInv, UNCHANGED gatewayVars
    PROVE  /\ FileTypes' /\ HeadTypes' /\ GatewayTypes' /\ GInv'
           /\ Last' = Last /\ created' = created /\ (Settled' <=> Settled)
           /\ UNCHANGED fresh => Ready'
<1>1. UNCHANGED <<linked, created, sized, counted, head, wpc, instruments, inits, m_md_num, tail,
                  sym, m_address>>
  BY DEF gatewayVars, fileVars
<1>2. Last' = Last BY <1>1 DEF Last
<1>3. FileTypes' /\ HeadTypes' /\ GatewayTypes'
  BY <1>1, TypeParts DEF IInv, FileTypes, HeadTypes, GatewayTypes
<1>4. Settled' <=> Settled BY <1>1, <1>2 DEF Settled
<1>5. Files' /\ Listed' /\ Placed' BY <1>1 DEF IInv, GInv, Files, Listed, Placed, AtWork, Naming
<1>6. Shape' BY <1>1, <1>2 DEF IInv, GInv, Shape, AtWork, Naming, Free
<1>7. UNCHANGED fresh => Ready' BY <1>1, <1>4 DEF IInv, Ready
<1> QED BY <1>1, <1>2, <1>3, <1>4, <1>5, <1>6, <1>7 DEF GInv

LEMMA OneMoves ==
    ASSUME IInv, NEW r \in Strategies, UNCHANGED gatewayVars, OthersKept(r), StrategyTypes',
           StepsOf(r)', r \in fresh' => FreshOf(r)', AddressedOf(r)', Ready'
    PROVE  IInv'
<1>1. FileTypes' /\ HeadTypes' /\ GatewayTypes' /\ GInv' /\ Last' = Last /\ created' = created
  BY GatewayStays
<1>2. TypeOK' BY <1>1, TypePartsPrimed
<1>3. ASSUME NEW q \in Strategies, q # r
      PROVE  StepsOf(q)' /\ (q \in fresh' => FreshOf(q)') /\ AddressedOf(q)'
  <2>1. /\ spc'[q] = spc[q] /\ statted'[q] = statted[q] /\ at'[q] = at[q] /\ pos'[q] = pos[q]
        /\ m_next_empty'[q] = m_next_empty[q] /\ address'[q] = address[q]
        /\ (q \in fresh' <=> q \in fresh) /\ known'[q] = known[q]
    BY <1>3 DEF OthersKept
  <2>2. StepsOf(q) /\ (q \in fresh => FreshOf(q)) /\ AddressedOf(q)
    BY DEF IInv, SInv, Steps, Fresh, Addressed
  <2>3. StepsOf(q)' BY <2>1, <2>2 DEF StepsOf
  <2>4. q \in fresh' => FreshOf(q)' BY <1>1, <2>1, <2>2 DEF FreshOf
  <2>5. AddressedOf(q)' BY <1>1, <2>1, <2>2 DEF AddressedOf
  <2> QED BY <2>3, <2>4, <2>5
<1>4. fresh' \subseteq Strategies BY DEF StrategyTypes
<1>5. SInv' BY <1>3, <1>4 DEF SInv, Steps, Fresh, Addressed
<1> QED BY <1>1, <1>2, <1>5 DEF IInv

\* What is known of a strategy, and what a fresh one found.
LEMMA StrategyFacts ==
    ASSUME IInv, NEW r \in Strategies
    PROVE  /\ StrategyTypes /\ StepsOf(r) /\ AddressedOf(r) /\ (r \in fresh => FreshOf(r) /\ Settled)
           /\ linked \in {0, created} /\ created \in Nat /\ MaxNum \in Nat
           /\ pos[r] \in Nat /\ m_next_empty[r] \in Heads /\ IsMap(address[r], Names)
           /\ at[r] # 0 => at[r] \in Regions
<1>1. StrategyTypes /\ linked \in {0, created} /\ created \in 0 .. MaxRegions
  BY TypeParts DEF IInv, FileTypes
<1>2. StepsOf(r) /\ AddressedOf(r) /\ (r \in fresh => FreshOf(r) /\ Settled)
  BY DEF IInv, SInv, Steps, Fresh, Addressed, Ready
<1>3. /\ pos[r] \in Nat /\ m_next_empty[r] \in Heads /\ IsMap(address[r], Names)
      /\ at[r] \in 0 .. created
  BY <1>1, ListFacts DEF StrategyTypes
<1>4. at[r] # 0 => at[r] \in Regions BY <1>1, <1>3, ListFacts DEF Regions
<1> QED BY <1>1, <1>2, <1>3, <1>4, ListFacts

\* Only one that is not fresh ever dies of the gateway.
LEMMA DieStep ==
    ASSUME IInv, NEW r \in Strategies, r \notin fresh, Die(r), DOMAIN address[r] = {},
           UNCHANGED <<gatewayVars, m_next_empty, address, fresh, known>>
    PROVE  IInv'
<1>1. StrategyTypes /\ MaxNum \in Nat /\ created \in Nat /\ created' = created
  BY StrategyFacts DEF gatewayVars, fileVars
<1>2. /\ spc' = [spc EXCEPT ![r] = "gone"] /\ statted' = [statted EXCEPT ![r] = "unset"]
      /\ at' = [at EXCEPT ![r] = 0] /\ pos' = [pos EXCEPT ![r] = 0]
      /\ UNCHANGED <<m_next_empty, address, fresh, known>>
  BY DEF Die, Goto
<1>3. spc'[r] = "gone" /\ at'[r] = 0 /\ DOMAIN address'[r] = {}
  BY <1>1, <1>2 DEF StrategyTypes
<1>4. OthersKept(r) BY <1>1, <1>2 DEF OthersKept, StrategyTypes
<1>5. StrategyTypes'
  <2>1. 0 \in 0 .. created /\ 0 \in 0 .. MaxNum + 1 BY <1>1
  <2> QED BY <1>1, <1>2, <2>1 DEF StrategyTypes
<1>6. StepsOf(r)' /\ AddressedOf(r)' BY <1>3 DEF StepsOf, AddressedOf
<1>7. r \notin fresh' /\ Ready' BY <1>2, GatewayStays
<1> QED BY <1>4, <1>5, <1>6, <1>7, OneMoves

\* file_exists: whoever finds the file of a gateway that is ready is fresh from then on.
LEMMA ExistsStep == ASSUME IInv, NEW r \in Strategies, Exists(r) PROVE IInv'
<1>0. StrategyTypes /\ StepsOf(r) /\ (r \in fresh => FreshOf(r)) /\ linked \in {0, created}
  BY StrategyFacts
<1>1. spc[r] = "start" /\ UNCHANGED gatewayVars /\ UNCHANGED <<m_next_empty, address>>
  BY DEF Exists, StrategyAt
<1>2. r \notin fresh /\ at[r] = 0 /\ pos[r] = 0 /\ DOMAIN address[r] = {}
  BY <1>0, <1>1 DEF StepsOf, FreshOf
<1>3. CASE linked = 0
  <2>1. Die(r) /\ UNCHANGED <<fresh, known>> BY <1>3 DEF Exists
  <2> QED BY <1>1, <1>2, <2>1, DieStep
<1>4. CASE linked # 0
  <2>1. spc' = [spc EXCEPT ![r] = "stat"] /\ UNCHANGED <<statted, at, pos>>
    BY <1>4 DEF Exists, Goto
  <2>2. spc'[r] = "stat" /\ at'[r] = 0 /\ pos'[r] = 0 /\ DOMAIN address'[r] = {}
    BY <1>0, <1>1, <1>2, <2>1 DEF StrategyTypes
  <2>3. Last' = Last /\ created' = created BY <1>1, GatewayStays
  <2>4. CASE inits = 0
    <3>1. /\ fresh' = fresh \cup {r}
          /\ known' = [known EXCEPT ![r] = {s \in Symbols : Named(linked, s)}]
      BY <1>4, <2>4 DEF Exists
    <3>2. Settled BY <2>4 DEF IInv, Ready
    <3>3. known'[r] = {s \in Symbols : Named(created, s)}
      BY <1>0, <3>1, <3>2 DEF StrategyTypes, Settled
    <3>4. StrategyTypes' BY <1>0, <1>1, <2>1, <2>3, <3>1 DEF StrategyTypes
    <3>5. OthersKept(r) BY <1>0, <1>1, <2>1, <3>1 DEF OthersKept, StrategyTypes
    <3>6. StepsOf(r)' BY <2>2 DEF StepsOf
    <3>7. FreshOf(r)' BY <2>2, <2>3, <3>3 DEF FreshOf, Named, Last
    <3>8. AddressedOf(r)' BY <2>2 DEF AddressedOf
    <3>9. Ready'
      <4>1. Settled' /\ inits' = 0 BY <1>1, <2>4, <3>2, GatewayStays DEF gatewayVars
      <4> QED BY <4>1 DEF Ready
    <3> QED BY <1>1, <3>4, <3>5, <3>6, <3>7, <3>8, <3>9, OneMoves
  <2>5. CASE inits # 0
    <3>1. UNCHANGED <<fresh, known>> BY <1>4, <2>5 DEF Exists
    <3>2. StrategyTypes' BY <1>0, <1>1, <2>1, <2>3, <3>1 DEF StrategyTypes
    <3>3. OthersKept(r) BY <1>0, <1>1, <2>1, <3>1 DEF OthersKept, StrategyTypes
    <3>4. StepsOf(r)' /\ AddressedOf(r)' BY <2>2 DEF StepsOf, AddressedOf
    <3>5. r \notin fresh' /\ Ready' BY <1>1, <1>2, <3>1, GatewayStays
    <3> QED BY <1>1, <3>2, <3>3, <3>4, <3>5, OneMoves
  <2> QED BY <2>4, <2>5
<1> QED BY <1>3, <1>4

\* stat: a fresh strategy sees the size of the file.
LEMMA StatStep == ASSUME IInv, NEW r \in Strategies, Stat(r) PROVE IInv'
<1>0. /\ StrategyTypes /\ StepsOf(r) /\ (r \in fresh => FreshOf(r) /\ Settled)
  BY StrategyFacts
<1> DEFINE size == CASE linked = 0 -> "garbage" [] linked \in sized -> "full" [] OTHER -> "empty"
<1>1. /\ spc[r] = "stat" /\ spc' = [spc EXCEPT ![r] = "map"]
      /\ statted' = [statted EXCEPT ![r] = size]
      /\ UNCHANGED gatewayVars /\ UNCHANGED <<at, pos, m_next_empty, address, fresh, known>>
  BY DEF Stat, StrategyAt, Goto
<1>2. size \in {"garbage", "empty", "full"} OBVIOUS
<1>3. Settled => size = "full" BY DEF Settled
<1> HIDE DEF size
<1>4. Last' = Last /\ created' = created /\ Ready' BY <1>1, GatewayStays
<1>5. StrategyTypes' BY <1>0, <1>1, <1>2, <1>4 DEF StrategyTypes
<1>6. OthersKept(r) BY <1>0, <1>1 DEF OthersKept, StrategyTypes
<1>7. spc'[r] = "map" /\ statted'[r] = size BY <1>0, <1>1 DEF StrategyTypes
<1>8. at[r] = 0 /\ pos[r] = 0 /\ DOMAIN address[r] = {} BY <1>0, <1>1 DEF StepsOf
<1>9. StepsOf(r)' /\ AddressedOf(r)' BY <1>1, <1>7, <1>8 DEF StepsOf, AddressedOf
<1>10. r \in fresh' => FreshOf(r)'
  BY <1>0, <1>1, <1>3, <1>4, <1>7, <1>8 DEF FreshOf
<1> QED BY <1>1, <1>4, <1>5, <1>6, <1>9, <1>10, OneMoves

\* load_page_buffer: a fresh strategy maps the region of the gateway.
LEMMA MapStep == ASSUME IInv, NEW r \in Strategies, Map(r) PROVE IInv'
<1>0. /\ StrategyTypes /\ StepsOf(r) /\ (r \in fresh => FreshOf(r) /\ Settled)
      /\ linked \in {0, created} /\ created \in Nat
  BY StrategyFacts
<1>1. /\ spc[r] = "map" /\ UNCHANGED gatewayVars
      /\ UNCHANGED <<m_next_empty, address, fresh, known>>
  BY DEF Map, StrategyAt
<1>2. at[r] = 0 /\ pos[r] = 0 /\ DOMAIN address[r] = {} BY <1>0, <1>1 DEF StepsOf
<1>3. CASE (linked = 0 \/ statted[r] # "full") /\ Die(r)
  <2>1. r \notin fresh BY <1>0, <1>1, <1>3 DEF FreshOf, Settled
  <2> QED BY <1>1, <1>2, <1>3, <2>1, DieStep
<1>4. CASE /\ linked # 0 /\ statted[r] # "empty"
           /\ at' = [at EXCEPT ![r] = linked] /\ statted' = [statted EXCEPT ![r] = "unset"]
           /\ Goto(r, "md_buff_num") /\ UNCHANGED pos
  <2>1. spc' = [spc EXCEPT ![r] = "md_buff_num"] BY <1>4 DEF Goto
  <2>2. Last' = Last /\ created' = created /\ Ready' BY <1>1, GatewayStays
  <2>3. linked = created /\ linked \in 0 .. created BY <1>0, <1>4
  <2>4. StrategyTypes' BY <1>0, <1>1, <1>4, <2>1, <2>2, <2>3 DEF StrategyTypes
  <2>5. OthersKept(r) BY <1>0, <1>1, <1>4, <2>1 DEF OthersKept, StrategyTypes
  <2>6. spc'[r] = "md_buff_num" /\ at'[r] = created BY <1>0, <1>4, <2>1, <2>3 DEF StrategyTypes
  <2>7. StepsOf(r)' /\ AddressedOf(r)'
    BY <1>1, <1>2, <1>4, <2>3, <2>6 DEF StepsOf, AddressedOf
  <2>8. r \in fresh' => FreshOf(r)' BY <1>0, <1>1, <2>2, <2>6 DEF FreshOf
  <2> QED BY <1>1, <2>2, <2>4, <2>5, <2>7, <2>8, OneMoves
<1> QED BY <1>3, <1>4 DEF Map

\* md_buff_num of a region that was laid out is there.
LEMMA ReadBuffNumStep == ASSUME IInv, NEW r \in Strategies, ReadBuffNum(r) PROVE IInv'
<1>0. /\ StrategyTypes /\ StepsOf(r) /\ (r \in fresh => FreshOf(r) /\ Settled) /\ MaxNum \in Nat
  BY StrategyFacts
<1>1. /\ spc[r] = "md_buff_num" /\ UNCHANGED gatewayVars
      /\ UNCHANGED <<m_next_empty, address, fresh, known>>
  BY DEF ReadBuffNum, StrategyAt
<1>2. at[r] # 0 /\ pos[r] = 0 /\ DOMAIN address[r] = {} BY <1>0, <1>1 DEF StepsOf
<1>3. CASE at[r] \notin sized \cap counted
  <2>1. Die(r) BY <1>3 DEF ReadBuffNum
  <2>2. r \notin fresh BY <1>0, <1>2, <1>3 DEF FreshOf, Settled
  <2> QED BY <1>1, <1>2, <2>1, <2>2, DieStep
<1>4. CASE at[r] \in sized \cap counted
  <2>1. spc' = [spc EXCEPT ![r] = "walk"] /\ UNCHANGED <<statted, at, pos>>
    BY <1>4 DEF ReadBuffNum, Goto
  <2>2. Last' = Last /\ created' = created /\ Ready' BY <1>1, GatewayStays
  <2>3. StrategyTypes' BY <1>0, <1>1, <2>1, <2>2 DEF StrategyTypes
  <2>4. OthersKept(r) BY <1>0, <1>1, <2>1 DEF OthersKept, StrategyTypes
  <2>5. spc'[r] = "walk" BY <1>0, <2>1 DEF StrategyTypes
  <2>6. StepsOf(r)' /\ AddressedOf(r)' BY <1>1, <1>2, <2>1, <2>5 DEF StepsOf, AddressedOf
  <2>7. r \in fresh' => FreshOf(r)' BY <1>0, <1>1, <1>2, <2>1, <2>2, <2>5 DEF FreshOf
  <2> QED BY <1>1, <2>2, <2>3, <2>4, <2>6, <2>7, OneMoves
<1> QED BY <1>3, <1>4

\* The walk stops at the first sentinel: the heads before it are all in use, and no head that
\* carries a name is behind it.
LEMMA WalkStep == ASSUME IInv, NEW r \in Strategies, Walk(r) PROVE IInv'
<1>0. /\ StrategyTypes /\ StepsOf(r) /\ (r \in fresh => FreshOf(r) /\ Settled)
      /\ MaxNum \in Nat /\ pos[r] \in Nat
  BY StrategyFacts
<1>1. spc[r] = "walk" /\ UNCHANGED gatewayVars /\ UNCHANGED <<address, fresh, known>>
  BY DEF Walk, StrategyAt
<1>2. at[r] # 0 /\ DOMAIN address[r] = {} BY <1>0, <1>1 DEF StepsOf
<1>3. r \in fresh => at[r] = created /\ pos[r] \in Heads /\ Settled
  BY <1>0, <1>1, <1>2 DEF FreshOf, Heads
<1>4. Last' = Last /\ created' = created /\ Ready' BY <1>1, GatewayStays
<1>5. CASE pos[r] \notin Heads /\ Die(r) /\ UNCHANGED m_next_empty
  BY <1>1, <1>2, <1>3, <1>5, DieStep
<1>6. CASE /\ pos[r] \in Heads /\ InUse(head[at[r]][pos[r]])
           /\ pos' = [pos EXCEPT ![r] = NextHead(@)]
           /\ UNCHANGED <<spc, statted, at, m_next_empty>>
  <2>1. pos'[r] = pos[r] + 1 /\ spc'[r] = "walk" BY <1>0, <1>1, <1>6 DEF StrategyTypes, NextHead
  <2>2. pos[r] + 1 \in 0 .. MaxNum + 1 BY <1>0, <1>6 DEF Heads
  <2>3. pos' = [pos EXCEPT ![r] = pos[r] + 1] BY <1>6 DEF NextHead
  <2>4. StrategyTypes' BY <1>0, <1>1, <1>4, <1>6, <2>2, <2>3 DEF StrategyTypes
  <2>5. OthersKept(r) BY <1>0, <1>1, <1>6, <2>3 DEF OthersKept, StrategyTypes
  <2>6. StepsOf(r)' /\ AddressedOf(r)' BY <1>1, <1>2, <1>6, <2>1 DEF StepsOf, AddressedOf
  <2>7. r \in fresh' => FreshOf(r)'
    <3> SUFFICES ASSUME r \in fresh PROVE FreshOf(r)' BY <1>1
    <3>1. Last[pos[r]].index >= 0 BY <1>3, <1>6 DEF InUse, Last
    <3>2. Last[MaxNum].index = -1 BY <1>3 DEF Settled
    <3>3. pos[r] # MaxNum BY <3>1, <3>2
    <3>4. pos[r] + 1 <= MaxNum BY <1>0, <1>6, <3>3 DEF Heads
    <3> QED BY <1>0, <1>1, <1>4, <1>6, <2>1, <3>4 DEF FreshOf
  <2> QED BY <1>1, <1>4, <2>4, <2>5, <2>6, <2>7, OneMoves
<1>7. CASE /\ pos[r] \in Heads /\ ~InUse(head[at[r]][pos[r]])
           /\ Goto(r, "load")
           /\ m_next_empty' = [m_next_empty EXCEPT ![r] = pos[r]]
           /\ pos' = [pos EXCEPT ![r] = 0]
           /\ UNCHANGED <<statted, at>>
  <2>1. spc' = [spc EXCEPT ![r] = "load"] BY <1>7 DEF Goto
  <2>2. pos'[r] = 0 /\ spc'[r] = "load" /\ m_next_empty'[r] = pos[r]
    BY <1>0, <1>7, <2>1 DEF StrategyTypes
  <2>3. 0 \in 0 .. MaxNum + 1 BY <1>0
  <2>4. StrategyTypes' BY <1>0, <1>1, <1>4, <1>7, <2>1, <2>3 DEF StrategyTypes
  <2>5. OthersKept(r) BY <1>0, <1>1, <1>7, <2>1 DEF OthersKept, StrategyTypes
  <2>6. StepsOf(r)' /\ AddressedOf(r)' BY <1>1, <1>2, <1>7, <2>2 DEF StepsOf, AddressedOf
  <2>7. r \in fresh' => FreshOf(r)'
    <3> SUFFICES ASSUME r \in fresh PROVE FreshOf(r)' BY <1>1
    <3>1. created \in Regions /\ TypeOK BY <1>2, <1>3, StrategyFacts DEF IInv
    <3>2. Last[pos[r]].index = -1
      <4>1. ~(Last[pos[r]].index >= 0) BY <1>3, <1>7 DEF InUse, Last
      <4>2. Last[pos[r]].index \in -1 .. MaxUpdates
        BY <1>7, <3>1, HeadTypeFacts DEF Last, HeadType
      <4> QED BY <4>1, <4>2, ListFacts
    <3>3. ASSUME NEW k \in Heads, NEW s \in Symbols, Last[k].name = Label(s)
          PROVE  k < pos[r] /\ ~(k < 0)
      <4>1. Last[k].index >= 0 BY <1>3, <3>3, SymbolFacts DEF Settled
      <4>2. k # pos[r] BY <3>2, <4>1
      <4>3. ~(pos[r] < k) BY <1>3, <3>2, <4>1 DEF Settled
      <4> QED BY <1>0, <4>2, <4>3 DEF Heads
    <3>4. known[r] \subseteq Symbols BY <1>0 DEF StrategyTypes
    <3>5. FreshOf(r) BY <1>0
    <3>6. \A s \in known[r] : \E k \in Heads : Last[k].name = Label(s) /\ k < pos[r] /\ ~(k < 0)
      BY <3>3, <3>4, <3>5 DEF FreshOf
    <3> QED BY <1>1, <1>3, <1>4, <1>7, <2>2, <3>6 DEF FreshOf
  <2> QED BY <1>1, <1>4, <2>4, <2>5, <2>6, <2>7, OneMoves
<1> QED BY <1>5, <1>6, <1>7 DEF Walk

\* load_instruments_addresses: each head the walk went over is entered under its name.
LEMMA LoadStep == ASSUME IInv, NEW r \in Strategies, Load(r) PROVE IInv'
<1>0. /\ StrategyTypes /\ StepsOf(r) /\ AddressedOf(r) /\ (r \in fresh => FreshOf(r))
      /\ MaxNum \in Nat /\ pos[r] \in Nat /\ m_next_empty[r] \in Heads
      /\ IsMap(address[r], Names) /\ (at[r] # 0 => at[r] \in Regions) /\ TypeOK
  BY StrategyFacts DEF IInv
<1>1. spc[r] = "load" /\ UNCHANGED gatewayVars
      /\ UNCHANGED <<statted, at, m_next_empty, fresh, known>>
  BY DEF Load, StrategyAt
<1>2. at[r] # 0 /\ at[r] \in Regions BY <1>0, <1>1 DEF StepsOf
<1>3. Last' = Last /\ created' = created /\ Ready' BY <1>1, GatewayStays
<1>4. CASE pos[r] < m_next_empty[r]
  <2> DEFINE n == head[at[r]][pos[r]].name
             map == Assign(address[r], n, pos[r])
  <2>1. /\ address' = [address EXCEPT ![r] = map] /\ pos' = [pos EXCEPT ![r] = pos[r] + 1]
        /\ UNCHANGED spc
    BY <1>4 DEF Load, NextHead
  <2>2. pos[r] \in Heads /\ pos[r] + 1 \in 0 .. MaxNum + 1 BY <1>0, <1>4 DEF Heads
  <2>3. n \in Names BY <1>0, <1>2, <2>2, HeadTypeFacts
  <2>5. at[r] = created => n = Last[pos[r]].name BY DEF Last
  <2>e. map = Assign(address[r], n, pos[r]) OBVIOUS
  <2> HIDE DEF n, map
  <2>4. /\ IsMap(map, Names) /\ DOMAIN map = DOMAIN address[r] \cup {n} /\ map[n] = pos[r]
        /\ \A y \in DOMAIN address[r] : y # n => map[y] = address[r][y]
    <3>1. DOMAIN address[r] \subseteq Names /\ address[r] \in [DOMAIN address[r] -> Heads]
      BY <1>0 DEF IsMap
    <3>2. map = [y \in DOMAIN address[r] \cup {n} |-> IF y = n THEN pos[r] ELSE address[r][y]]
      BY <2>e DEF Assign
    <3> QED BY <2>2, <2>3, <3>1, <3>2 DEF IsMap
  <2>6. spc'[r] = "load" /\ pos'[r] = pos[r] + 1 BY <1>0, <1>1, <2>1 DEF StrategyTypes
  <2>7. /\ address'[r] = map /\ \A q \in Strategies : q # r => address'[q] = address[q]
    <3>1. DOMAIN address = Strategies BY <1>0 DEF StrategyTypes
    <3> QED BY <2>1, <3>1
  <2>8. StrategyTypes'
    <3>1. \A q \in Strategies : IsMap(address'[q], Names)
      BY <1>0, <2>4, <2>7 DEF StrategyTypes
    <3>2. pos' \in [Strategies -> 0 .. MaxNum + 1] BY <1>0, <2>1, <2>2 DEF StrategyTypes
    <3> QED BY <1>0, <1>1, <1>3, <2>1, <3>1, <3>2 DEF StrategyTypes
  <2>9. OthersKept(r) BY <1>0, <1>1, <2>1, <2>7 DEF OthersKept, StrategyTypes
  <2>10. StepsOf(r)' BY <1>1, <1>2, <2>6 DEF StepsOf
  <2>11. AddressedOf(r)'
    <3> SUFFICES ASSUME at[r] = created, NEW s \in Symbols, Label(s) \in DOMAIN map
                 PROVE  Last[map[Label(s)]].name = Label(s)
      BY <1>1, <1>3, <2>7 DEF AddressedOf
    <3>1. CASE Label(s) = n BY <2>4, <2>5, <3>1
    <3>2. CASE Label(s) # n BY <1>0, <2>4, <3>2 DEF AddressedOf
    <3> QED BY <3>1, <3>2
  <2>12. r \in fresh' => FreshOf(r)'
    <3> SUFFICES ASSUME r \in fresh PROVE FreshOf(r)' BY <1>1
    <3>1. FreshOf(r) /\ at[r] = created BY <1>0, <1>2 DEF FreshOf
    <3>2. ASSUME NEW s \in known[r]
          PROVE  \E k \in Heads : /\ Last[k].name = Label(s) /\ k < m_next_empty[r]
                                  /\ k < pos[r] + 1 => Label(s) \in DOMAIN map
      <4>1. PICK k \in Heads : /\ Last[k].name = Label(s) /\ k < m_next_empty[r]
                               /\ k < pos[r] => Label(s) \in DOMAIN address[r]
        BY <1>1, <3>1 DEF FreshOf
      <4>2. k < pos[r] + 1 => k < pos[r] \/ k = pos[r] BY <1>0 DEF Heads
      <4>3. k = pos[r] => Label(s) \in DOMAIN map BY <2>4, <2>5, <3>1, <4>1
      <4> QED BY <2>4, <4>1, <4>2, <4>3
    <3> QED BY <1>1, <1>3, <2>6, <2>7, <3>1, <3>2 DEF FreshOf
  <2> QED BY <1>1, <1>3, <2>8, <2>9, <2>10, <2>11, <2>12, OneMoves
<1>5. CASE ~(pos[r] < m_next_empty[r])
  <2>1. spc' = [spc EXCEPT ![r] = "attached"] /\ UNCHANGED <<address, pos>>
    BY <1>5 DEF Load, Goto
  <2>2. spc'[r] = "attached" BY <1>0, <2>1 DEF StrategyTypes
  <2>3. StrategyTypes' BY <1>0, <1>1, <1>3, <2>1 DEF StrategyTypes
  <2>4. OthersKept(r) BY <1>0, <1>1, <2>1 DEF OthersKept, StrategyTypes
  <2>5. StepsOf(r)' BY <1>1, <1>2, <2>2 DEF StepsOf
  <2>6. AddressedOf(r)' BY <1>0, <1>1, <1>3, <2>1 DEF AddressedOf
  <2>7. r \in fresh' => FreshOf(r)'
    <3>1. \A k \in Heads : k < m_next_empty[r] => k < pos[r] BY <1>0, <1>5 DEF Heads
    <3> QED BY <1>0, <1>1, <1>3, <2>1, <2>2, <3>1 DEF FreshOf
  <2> QED BY <1>1, <1>3, <2>3, <2>4, <2>5, <2>6, <2>7, OneMoves
<1> QED BY <1>4, <1>5

-----------------------------------------------------------------------------
(* Every step.                                                             *)

\* A step of the gateway that writes no head but those of its region.
Onward ==
    \/ Truncate \/ SetBuffNum \/ ZeroHead \/ CopyFirstWord \/ CopyRest \/ Sentinel
    \/ (\E s \in Symbols : OnRtnData(s)) \/ Update
    \/ Crash \/ Restart

LEMMA OnwardStep == ASSUME IInv, Onward PROVE IInv' /\ Kept
<1>1. CASE Truncate \/ SetBuffNum BY <1>1, CreateStep
<1>2. CASE ZeroHead BY <1>2, ZeroHeadStep
<1>3. CASE CopyFirstWord BY <1>3, CopyFirstWordStep
<1>4. CASE CopyRest BY <1>4, CopyRestStep
<1>5. CASE Sentinel BY <1>5, SentinelStep
<1>6. ASSUME NEW s \in Symbols, OnRtnData(s) PROVE IInv' /\ Kept BY <1>6, OnRtnDataStep
<1>7. CASE Update BY <1>7, UpdateStep
<1>8. CASE Crash \/ Restart BY <1>8, DownStep
<1> QED BY <1>1, <1>2, <1>3, <1>4, <1>5, <1>6, <1>7, <1>8 DEF Onward

LEMMA GetShmStep == ASSUME IInv, NEW r \in Strategies, GetShm(r) PROVE IInv' /\ head' = head
<1>1. IInv'
  BY ExistsStep, StatStep, MapStep, ReadBuffNumStep, WalkStep, LoadStep DEF GetShm
<1>2. head' = head
  BY DEF GetShm, Exists, Stat, Map, ReadBuffNum, Walk, Load, gatewayVars
<1> QED BY <1>1, <1>2

LEMMA StepIInv == IInv /\ [Next]_vars => IInv'
<1> SUFFICES ASSUME IInv, [Next]_vars PROVE IInv' OBVIOUS
<1>1. CASE Remove BY <1>1, RemoveStep
<1>2. CASE Open BY <1>2, OpenStep
<1>3. CASE Onward BY <1>3, OnwardStep
<1>4. ASSUME NEW r \in Strategies, GetShm(r) PROVE IInv' BY <1>4, GetShmStep
<1>5. CASE UNCHANGED vars
  <2>1. UNCHANGED gatewayVars /\ UNCHANGED strategyVars BY <1>5 DEF vars
  <2>2. UNCHANGED <<head, created>> BY <2>1 DEF gatewayVars, fileVars
  <2>3. FileTypes' /\ HeadTypes' /\ GatewayTypes' /\ GInv' /\ Ready'
    BY <2>1, GatewayStays DEF strategyVars
  <2>4. Kept BY <2>1, <2>2, HeadSame DEF IInv
  <2>5. StrategyTypes' /\ SInv' BY <2>4, StrategiesKept
  <2> QED BY <2>3, <2>5, TypePartsPrimed DEF IInv
<1> QED BY <1>1, <1>2, <1>3, <1>4, <1>5 DEF Next, Gateway, Onward

-----------------------------------------------------------------------------
(* The theorems.                                                           *)

\* The invariant holds of every behaviour of create_shm_ptr, init_shm, set_shm_addr, on_rtn_data
\* and get_shm, through deaths and restarts of the gateway.
THEOREM Invariance == Spec => []IInv
<1>1. Init => IInv BY InitIInv
<1>2. IInv /\ [Next]_vars => IInv' BY StepIInv
<1> QED BY <1>1, <1>2, PTL DEF Spec

\* The variables keep their types: the gateway's writes stay inside the mapping (tail and
\* m_md_num), and so do the heads the strategies' walks and maps point at.
THEOREM TypeCorrect == Spec => []TypeOK
<1>1. IInv => TypeOK BY DEF IInv
<1> QED BY <1>1, Invariance, PTL

\* get_shm, begun when the gateway is ready, is never the end of the strategy: whatever
\* on_rtn_data adds under its walk, a sentinel stops the walk inside the region.
THEOREM FreshAlwaysSurvives == Spec => []FreshSurvives
<1>1. IInv => FreshSurvives BY DEF IInv, SInv, Fresh, FreshOf, FreshSurvives
<1> QED BY <1>1, Invariance, PTL

\* The map that load_instruments_addresses leaves to such a strategy is of the gateway's
\* region and has every instrument that was there when get_shm began.
THEOREM SnapshotIsComplete == Spec => []SnapshotComplete
<1>1. IInv => SnapshotComplete
  <2> SUFFICES ASSUME IInv, NEW r \in fresh, spc[r] = "attached"
               PROVE  /\ at[r] = linked
                      /\ \A s \in known[r] : Label(s) \in DOMAIN address[r]
    BY DEF SnapshotComplete
  <2>1. r \in Strategies BY DEF IInv, TypeOK
  <2>2. FreshOf(r) /\ StepsOf(r) /\ Settled BY <2>1, StrategyFacts
  <2> QED BY <2>2 DEF FreshOf, StepsOf, Settled
<1> QED BY <1>1, Invariance, PTL

\* A strategy that has an instrument in its m_instruments_address, whenever it attached,
\* reads the head that the gateway's m_instruments_address says.
THEOREM HeadIsTheSame == Spec => []SameHead
<1>1. IInv => SameHead
  <2> SUFFICES ASSUME IInv, NEW r \in Strategies, spc[r] = "attached", at[r] = created,
                      NEW s \in DOMAIN m_address, Label(s) \in DOMAIN address[r]
               PROVE  address[r][Label(s)] = m_address[s]
    BY DEF SameHead
  <2>1. TypeOK /\ GInv BY DEF IInv
  <2>2. created # 0 /\ IsMap(address[r], Names) /\ AddressedOf(r)
    BY StrategyFacts DEF StepsOf
  <2>3. s \in Symbols BY <2>1 DEF TypeOK, IsMap
  <2>4. address[r][Label(s)] \in Heads BY <2>2 DEF IsMap
  <2>5. Last[address[r][Label(s)]].name = Label(s) BY <2>2, <2>3 DEF AddressedOf
  <2> QED BY <2>1, <2>2, <2>4, <2>5, OneHead
<1> QED BY <1>1, Invariance, PTL

\* No memset, strncpy or sentinel of init_shm and init_instrument_shm hits a head that carries
\* a name, in any region that a strategy has mapped or can find.
THEOREM HeadsAreKept == Spec => HeadsKept
<1> DEFINE Grows(h, i) == /\ FirstWord(i.name) = FirstWord(h.name)
                          /\ Len(i.name) >= Len(h.name) /\ i.index >= h.index
           Seen == {linked'} \cup {at[r] : r \in Strategies}
           Step == \A g \in Seen : \A k \in Heads :
                       g # 0 /\ head[g][k].name # <<>> => Grows(head[g][k], head'[g][k])
<1>1. IInv /\ [Next]_vars => Step \/ head' = head
  <2> SUFFICES ASSUME IInv, [Next]_vars, head' # head PROVE Step OBVIOUS
  <2>0. TypeOK /\ TypeOK' BY StepIInv DEF IInv
  <2>1. ASSUME NEW g \in Regions, NEW k \in Heads
        PROVE  Len(head[g][k].name) \in Int /\ head[g][k].index \in Int
    BY <2>0, <2>1, HeadTypeFacts, NameLengths
  <2>2. \A g \in Seen : g # 0 => g \in Regions
    <3>1. created \in 0 .. MaxRegions /\ created' \in 0 .. MaxRegions /\ linked' \in {0, created'}
      BY <2>0 DEF TypeOK
    <3>2. \A r \in Strategies : at[r] \in 0 .. created BY <2>0 DEF TypeOK
    <3> QED BY <3>1, <3>2, ListFacts DEF Regions
  <2>3. CASE Remove
    <3>1. \A g \in Seen : g # 0 => head'[g] = head[g]
      BY <2>2, <2>3 DEF Remove
    <3> QED BY <2>1, <2>2, <3>1
  <2>4. CASE Onward
    <3>1. Kept BY <2>4, OnwardStep
    <3> SUFFICES ASSUME NEW g \in Seen, NEW k \in Heads, g # 0, head[g][k].name # <<>>
                 PROVE  Grows(head[g][k], head'[g][k])
      OBVIOUS
    <3>2. g \in Regions BY <2>2
    <3>3. CASE g = created BY <3>1, <3>3 DEF Kept, Last
    <3>4. CASE g # created
      <4>1. head'[g] = head[g] BY <3>1, <3>2, <3>4 DEF Kept
      <4> QED BY <2>1, <3>2, <4>1
    <3> QED BY <3>3, <3>4
  <2>5. ~Open BY DEF Open
  <2>6. ~(\E r \in Strategies : GetShm(r)) BY GetShmStep
  <2>7. ~UNCHANGED vars BY DEF vars, gatewayVars
  <2> QED BY <2>3, <2>4, <2>5, <2>6, <2>7 DEF Next, Gateway, Onward
<1>2. IInv /\ [Next]_vars => [\A g \in {linked'} \cup {at[r] : r \in Strategies} : \A k \in Heads :
          g # 0 /\ head[g][k].name # <<>> =>
              /\ FirstWord(head'[g][k].name) = FirstWord(head[g][k].name)
              /\ Len(head'[g][k].name) >= Len(head[g][k].name)
              /\ head'[g][k].index >= head[g][k].index]_head
  BY <1>1
<1> QED BY <1>2, Invariance, PTL DEF Spec, HeadsKept
===============================================================================
