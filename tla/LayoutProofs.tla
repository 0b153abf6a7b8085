---------------------------- MODULE LayoutProofs ----------------------------
(***************************************************************************)
(* Proofs about Layout, for any sizes, configurations and mappings: who    *)
(* finds the head finds a complete table, and a ring that was joined lies  *)
(* in the file and apart from everything else, although the server neither *)
(* looks for the end of the file nor for overflows.  Its assertions hold   *)
(* where it does look, and a client can join what lies in the file.        *)
(***************************************************************************)
EXTENDS Layout, TLAPS

Powers == INSTANCE PowersOfTwo

(* Rings are laid out one behind the other, behind the table, each with    *)
(* the pages for its sizes as the server has computed them.                *)
End(info) == info.offset_data + PagesFor(info.size_data)
Stacked ==
  /\ \A i \in DOMAIN infos :
       /\ infos[i].offset_ring = infos[i].offset_head + Page
       /\ infos[i].offset_data = infos[i].offset_ring + PagesFor(infos[i].size_ring)
       /\ Behind <= infos[i].offset_head
       /\ End(infos[i]) <= server.range.start
  /\ \A i, j \in DOMAIN infos : i < j => End(infos[i]) <= infos[j].offset_head
  /\ server.pc = "new" => infos = <<>>
  /\ server.pc = "offsets" => Behind <= server.range.start

(* The magic number comes after everything it stands for. *)
Ordered ==
  /\ head.magic => server.pc = "up"
  /\ server.pc \in {"magic", "up"} =>
       Len(infos) = Len(config) /\ head.ring_count = Len(config)
  /\ \A c \in Client : client[c].open => head.magic /\ client[c].ring_count = Len(config)

(* What a client has joined passed its checks, and stays what it was. *)
CheckedOnce ==
  \A c \in Client : \A i \in client[c].joined :
    /\ client[c].open
    /\ i \in DOMAIN infos /\ MayJoin(client[c].base, infos[i])

IInv == TypeOK /\ Stacked /\ Ordered /\ CheckedOnce

-----------------------------------------------------------------------------
LEMMA PadType ==
  ASSUME NEW n \in Int, NEW a \in Nat \ {0}
  PROVE  Pad(n, a) \in Nat
BY DEF Pad

(* The pages of a length hold it, and are less than a page longer. *)
LEMMA PageFacts ==
  ASSUME NEW n \in Nat
  PROVE  /\ page_requirement(n) \in Nat
         /\ page_requirement(n) * Page \in Nat
         /\ n <= page_requirement(n) * Page
         /\ page_requirement(n) * Page < n + Page
<1> DEFINE q == n \div Page
           r == n % Page
<1>1. Page \in Nat \ {0}
  BY LayoutAssumption
<1>2. q \in Nat /\ r \in 0 .. Page - 1 /\ n = Page * q + r
  BY <1>1
<1>3. page_requirement(n) = q + (IF r = 0 THEN 0 ELSE 1)
  BY DEF page_requirement
<1> HIDE DEF q, r
<1>4. CASE r = 0
  <2>1. page_requirement(n) = q
    BY <1>2, <1>3, <1>4
  <2>2. q * Page = n
    BY <1>1, <1>2, <1>4
  <2> QED BY <1>1, <1>2, <2>1, <2>2
<1>5. CASE r # 0
  <2>1. page_requirement(n) = q + 1
    BY <1>3, <1>5
  <2>2. (q + 1) * Page = Page * q + Page
    BY <1>1, <1>2
  <2>3. Page * q \in Nat
    BY <1>1, <1>2
  <2> QED BY <1>1, <1>2, <1>5, <2>1, <2>2, <2>3
<1> QED BY <1>4, <1>5

(* Below the width of a word nothing wraps. *)
LEMMA PagesForFacts ==
  ASSUME NEW n \in Nat
  PROVE  /\ PagesFor(n) \in Nat
         /\ n + Page <= Word => n <= PagesFor(n)
<1> DEFINE m == page_requirement(n) * Page
<1>1. m \in Nat /\ n <= m /\ m < n + Page
  BY PageFacts
<1>2. Word \in Nat \ {0} /\ Page \in Nat
  BY LayoutAssumption
<1>3. PagesFor(n) = m % Word
  BY DEF PagesFor
<1> HIDE DEF m
<1>4. m % Word \in Nat /\ (m < Word => m % Word = m)
  BY <1>1, <1>2
<1> QED BY <1>1, <1>2, <1>3, <1>4

LEMMA SizeFacts ==
  ASSUME TypeOK
  PROVE  /\ file \in Nat /\ HeadSize \in Nat /\ HeadSize <= file /\ file + Page <= Word
         /\ TailSize \in Nat /\ RingOffset \in Nat /\ RingsLen \in Nat
         /\ Len(config) * InfoSize \in Nat /\ Len(config) * InfoSize <= RingsLen
         /\ Behind = HeadSize + RingOffset + RingsLen /\ Behind \in Nat
         /\ Pad(Behind, Page) \in Nat
         /\ Page \in Nat \ {0} /\ RingHeadSize \in Nat /\ RingHeadSize <= Page
<1>1. /\ Page \in Nat \ {0} /\ Align \in Nat \ {0} /\ InfoSize \in Nat /\ Word \in Nat
      /\ HeadSize \in Nat /\ RingHeadSize \in 0 .. Page
  BY LayoutAssumption
<1>2. file \in Nat /\ HeadSize <= file /\ 2 * (file + Page) <= Word
  BY LayoutAssumption DEF TypeOK
<1>3. Len(config) \in Nat
  BY LayoutAssumption DEF TypeOK
<1>4. Len(config) * InfoSize \in Nat
  BY <1>1, <1>3
<1>5. RingsLen \in Nat /\ Len(config) * InfoSize <= RingsLen
  BY <1>4, PageFacts DEF RingsLen
<1>6. RingOffset \in Nat /\ TailSize \in Nat
  BY <1>1, <1>2, PadType DEF RingOffset, TailSize
<1>7. Behind = HeadSize + RingOffset + RingsLen /\ Behind \in Nat
  BY <1>1, <1>5, <1>6 DEF Behind
<1>8. Pad(Behind, Page) \in Nat
  BY <1>1, <1>7, PadType
<1> QED BY <1>1, <1>2, <1>4, <1>5, <1>6, <1>7, <1>8

LEMMA ComingType ==
  ASSUME TypeOK, Len(infos) < Len(config)
  PROVE  Coming \in RingConfig
BY LayoutAssumption DEF TypeOK, Coming

LEMMA InfoType ==
  ASSUME NEW c \in RingConfig, NEW start \in Nat
  PROVE  /\ InfoFor(c, start) \in Info
         /\ PagesFor(c.ring_size) \in Nat /\ PagesFor(c.data_size) \in Nat
         /\ Takes(c) \in Nat
         /\ End(InfoFor(c, start)) = start + Takes(c)
<1>1. c.ring_size \in Nat /\ c.data_size \in Nat /\ Page \in Nat
  BY LayoutAssumption DEF RingConfig, U64
<1>2. PagesFor(c.ring_size) \in Nat /\ PagesFor(c.data_size) \in Nat
  BY <1>1, PagesForFacts
<1>3. InfoFor(c, start) \in Info
  BY <1>1, <1>2 DEF InfoFor, Info, RingConfig
<1>4. Takes(c) \in Nat
  BY <1>1, <1>2 DEF Takes
<1>5. End(InfoFor(c, start)) = start + Takes(c)
  BY <1>1, <1>2 DEF End, InfoFor, Takes
<1> QED BY <1>2, <1>3, <1>4, <1>5

-----------------------------------------------------------------------------
LEMMA InvInit == Init => IInv
<1> SUFFICES ASSUME Init PROVE IInv
  OBVIOUS
<1>1. infos = <<>> /\ infos \in Seq(Info) /\ Len(infos) = 0 /\ DOMAIN infos = {}
  BY DEF Init
<1>2. Len(config) \in Nat
  BY LayoutAssumption DEF Init
<1>3. TypeOK
  <2>1. \A b \in Bases : Mapped(b) \in ClientState
    BY DEF Mapped, ClientState
  <2>2. client \in [Client -> ClientState]
    BY <2>1 DEF Init
  <2> QED BY <1>1, <1>2, <2>2 DEF Init, TypeOK, Range
<1>4. Stacked
  BY <1>1 DEF Init, Stacked
<1>5. \A c \in Client : ~client[c].open /\ client[c].joined = {}
  BY DEF Init, Mapped
<1> QED BY <1>3, <1>4, <1>5 DEF Init, IInv, Ordered, CheckedOnce

LEMMA InvNew == IInv /\ New => IInv'
<1> SUFFICES ASSUME IInv, New PROVE IInv'
  OBVIOUS
<1>1. UNCHANGED <<file, config, checked, head, infos, client>> /\ server.pc = "new"
  BY DEF New
<1>2. TypeOK /\ infos = <<>> /\ DOMAIN infos = {}
  BY <1>1 DEF IInv, Stacked
<1>3. CASE Begins /\ server' = [pc |-> "offsets", range |-> Rest(Left, Pad(Behind, Page))]
  <2>1. Left.start = Behind /\ Left.end = TailSize - RingOffset + Behind
        /\ Left.end \in Nat
    <3>1. Left.start = Behind /\ Left.end = TailSize - RingOffset + Behind
      BY DEF Left
    <3>2. RingOffset <= TailSize
      BY <1>3 DEF Begins
    <3>3. RingOffset \in Nat /\ TailSize \in Nat /\ Behind \in Nat
      BY <1>2, SizeFacts
    <3> QED BY <3>1, <3>2, <3>3
  <2> DEFINE range == Rest(Left, Pad(Behind, Page))
  <2>2. range.start = Behind + Pad(Behind, Page) /\ range.end = Left.end
    BY <2>1 DEF Rest, Left
  <2>3. range \in Range /\ range.start <= range.end /\ Behind <= range.start
    <3>1. range = [start |-> Behind + Pad(Behind, Page), end |-> Left.end]
      BY <2>1 DEF Rest, Left
    <3>2. Pad(Behind, Page) \in Nat /\ Behind \in Nat
      BY <1>2, SizeFacts
    <3>3. range.start \in Nat /\ range.end \in Nat /\ Behind <= range.start
      BY <2>1, <2>2, <3>2
    <3>4. range.start <= range.end
      BY <1>3, <2>1, <2>2 DEF Begins, Has
    <3> QED BY <2>1, <2>2, <3>1, <3>3, <3>4 DEF Range
  <2> HIDE DEF range
  <2>4. server'.pc = "offsets" /\ server'.range = range
    BY <1>3 DEF range
  <2>5. TypeOK'
    BY <1>1, <1>2, <1>3, <2>3 DEF TypeOK, range
  <2>6. Stacked'
    BY <1>1, <1>2, <2>3, <2>4 DEF Stacked, Behind, RingsLen, RingOffset
  <2>7. Ordered' /\ CheckedOnce'
    BY <1>1, <2>4 DEF IInv, Ordered, CheckedOnce, MayJoin, IsInTail, TailSize
  <2> QED BY <2>5, <2>6, <2>7 DEF IInv
<1>4. CASE Fails
  <2>1. server'.pc = "failed" /\ server'.range = server.range
    BY <1>2, <1>4 DEF Fails, TypeOK
  <2>2. TypeOK'
    BY <1>1, <1>2, <1>4 DEF TypeOK, Fails
  <2>3. Stacked'
    BY <1>1, <1>2, <2>1 DEF Stacked
  <2>4. Ordered' /\ CheckedOnce'
    BY <1>1, <2>1 DEF IInv, Ordered, CheckedOnce, MayJoin, IsInTail, TailSize
  <2> QED BY <2>2, <2>3, <2>4 DEF IInv
<1> QED BY <1>3, <1>4 DEF New

LEMMA InvLayOut == IInv /\ LayOut => IInv'
<1> SUFFICES ASSUME IInv, LayOut PROVE IInv'
  OBVIOUS
<1> DEFINE n == Len(infos) + 1
           start == server.range.start
           info == InfoFor(Coming, start)
<1>1. /\ UNCHANGED <<file, config, checked, head, client>>
      /\ server.pc = "offsets" /\ Len(infos) < Len(config)
  BY DEF LayOut
<1>2. /\ TypeOK /\ infos \in Seq(Info) /\ Len(infos) \in Nat /\ Len(config) \in Nat
      /\ server.range \in Range /\ start \in Nat /\ Coming \in RingConfig
  BY <1>1, LayoutAssumption, ComingType DEF IInv, TypeOK, Range
<1>3. ~head.magic /\ \A c \in Client : ~client[c].open /\ client[c].joined = {}
  <2>1. ~head.magic
    BY <1>1 DEF IInv, Ordered
  <2>2. \A c \in Client : ~client[c].open
    BY <2>1 DEF IInv, Ordered
  <2>3. \A c \in Client : client[c].joined = {}
    BY <2>2 DEF IInv, CheckedOnce
  <2> QED BY <2>1, <2>2, <2>3
<1>4. server'.pc \notin {"magic", "up"} => Ordered' /\ CheckedOnce'
  BY <1>1, <1>3 DEF Ordered, CheckedOnce
<1>5. CASE Fails /\ UNCHANGED infos
  <2>1. server'.pc = "failed" /\ server'.range = server.range
    BY <1>2, <1>5 DEF Fails, TypeOK
  <2>2. TypeOK'
    BY <1>1, <1>2, <1>5 DEF TypeOK, Fails
  <2>3. Stacked'
    BY <1>1, <1>5, <2>1 DEF IInv, Stacked, Behind, RingsLen, RingOffset, End, PagesFor,
      page_requirement
  <2> QED BY <1>4, <2>1, <2>2, <2>3 DEF IInv
<1>6. CASE /\ Fits(Coming) /\ infos' = Append(infos, info)
           /\ server' = [server EXCEPT !.range = Rest(@, Takes(Coming))]
  <2>1. /\ info \in Info /\ Takes(Coming) \in Nat
        /\ End(info) = start + Takes(Coming)
        /\ info.offset_head = start /\ info.offset_ring = start + Page
        /\ info.offset_data = info.offset_ring + PagesFor(info.size_ring)
    BY <1>2, InfoType DEF InfoFor
  <2> HIDE DEF info
  <2>2. /\ infos' \in Seq(Info) /\ Len(infos') = n /\ DOMAIN infos' = 1 .. n
        /\ DOMAIN infos = 1 .. n - 1 /\ infos'[n] = info
        /\ \A i \in 1 .. n - 1 : infos'[i] = infos[i]
    BY <1>2, <1>6, <2>1
  <2>3. /\ server'.pc = "offsets"
        /\ server'.range.start = start + Takes(Coming)
        /\ server'.range.end = server.range.end
        /\ server'.range \in Range
    BY <1>1, <1>2, <1>6, <2>1 DEF TypeOK, Range, Rest
  <2>4. TypeOK'
    <3>1. server'.range.start <= server'.range.end
      BY <1>6, <2>3 DEF Fits, Has
    <3>2. server' \in [pc : {"new", "offsets", "magic", "up", "failed"}, range : Range]
      BY <1>2, <1>6, <2>3 DEF TypeOK
    <3> QED BY <1>1, <1>2, <2>2, <3>1, <3>2 DEF TypeOK
  <2>5. \A i \in 1 .. n - 1 : End(infos[i]) <= start /\ End(infos[i]) \in Nat
    <3>1. \A i \in 1 .. n - 1 : infos[i] \in Info
      BY <1>2, <2>2
    <3>2. \A i \in 1 .. n - 1 : End(infos[i]) \in Nat
      <4> SUFFICES ASSUME NEW i \in 1 .. n - 1 PROVE End(infos[i]) \in Nat
        OBVIOUS
      <4>1. infos[i].size_data \in Nat /\ infos[i].offset_data \in Nat
        <5>1. Word \in Nat
          BY LayoutAssumption
        <5> QED BY <3>1, <5>1 DEF Info, U64
      <4>2. PagesFor(infos[i].size_data) \in Nat
        BY <4>1, PagesForFacts
      <4> QED BY <4>1, <4>2 DEF End
    <3>3. \A i \in 1 .. n - 1 : End(infos[i]) <= start
      BY <2>2 DEF IInv, Stacked
    <3> QED BY <3>2, <3>3
  <2>6. Behind <= start /\ Behind' = Behind
    BY <1>1 DEF IInv, Stacked, Behind, RingsLen, RingOffset
  <2>7. Stacked'
    <3>1. \A i \in 1 .. n :
            /\ infos'[i].offset_ring = infos'[i].offset_head + Page
            /\ infos'[i].offset_data = infos'[i].offset_ring + PagesFor(infos'[i].size_ring)
            /\ Behind <= infos'[i].offset_head
            /\ End(infos'[i]) <= server'.range.start
      <4>1. ASSUME NEW i \in 1 .. n - 1
            PROVE  /\ infos'[i].offset_ring = infos'[i].offset_head + Page
                   /\ infos'[i].offset_data
                        = infos'[i].offset_ring + PagesFor(infos'[i].size_ring)
                   /\ Behind <= infos'[i].offset_head
        BY <2>2 DEF IInv, Stacked
      <4>2. \A i \in 1 .. n - 1 : End(infos'[i]) <= server'.range.start
        <5>1. \A i \in 1 .. n - 1 : End(infos'[i]) = End(infos[i])
          BY <2>2
        <5> QED BY <1>2, <2>1, <2>3, <2>5, <5>1
      <4>3. End(infos'[n]) <= server'.range.start
        BY <1>2, <2>1, <2>2, <2>3
      <4>4. /\ infos'[n].offset_ring = infos'[n].offset_head + Page
            /\ infos'[n].offset_data = infos'[n].offset_ring + PagesFor(infos'[n].size_ring)
            /\ Behind <= infos'[n].offset_head
        BY <2>1, <2>2, <2>6
      <4>5. \A i \in 1 .. n : i = n \/ i \in 1 .. n - 1
        BY <1>2
      <4> QED BY <4>1, <4>2, <4>3, <4>4, <4>5
    <3>2. \A i, j \in 1 .. n : i < j => End(infos'[i]) <= infos'[j].offset_head
      <4>1. SUFFICES ASSUME NEW i \in 1 .. n, NEW j \in 1 .. n, i < j
                     PROVE  End(infos'[i]) <= infos'[j].offset_head
        OBVIOUS
      <4>2. i \in 1 .. n - 1 /\ infos'[i] = infos[i]
        BY <1>2, <2>2, <4>1
      <4>3. CASE j = n
        BY <2>1, <2>2, <2>5, <4>2, <4>3
      <4>4. CASE j # n
        <5>1. j \in 1 .. n - 1 /\ infos'[j] = infos[j]
          BY <1>2, <2>2, <4>1, <4>4
        <5> QED BY <2>2, <4>1, <4>2, <5>1 DEF IInv, Stacked
      <4> QED BY <4>3, <4>4
    <3>3. Behind <= server'.range.start
      <4>1. Behind \in Nat
        BY <1>2, SizeFacts
      <4> QED BY <1>2, <2>1, <2>3, <2>6, <4>1
    <3> QED BY <2>2, <2>3, <2>6, <3>1, <3>2, <3>3 DEF Stacked, End, PagesFor,
          page_requirement
  <2> QED BY <1>4, <2>3, <2>4, <2>7 DEF IInv
<1> QED BY <1>5, <1>6 DEF LayOut

LEMMA InvPublish == IInv /\ (WriteHead \/ StoreMagic) => IInv'
<1> SUFFICES ASSUME IInv, WriteHead \/ StoreMagic PROVE IInv'
  OBVIOUS
<1>1. /\ UNCHANGED <<file, config, checked, infos, client>>
      /\ server.pc \in {"offsets", "magic"} /\ server'.range = server.range
      /\ server'.pc \in {"magic", "up"}
  BY DEF WriteHead, StoreMagic, IInv, TypeOK
<1>2. ~head.magic /\ \A c \in Client : ~client[c].open /\ client[c].joined = {}
  <2>1. ~head.magic
    BY <1>1 DEF IInv, Ordered
  <2>2. \A c \in Client : ~client[c].open
    BY <2>1 DEF IInv, Ordered
  <2> QED BY <2>1, <2>2 DEF IInv, CheckedOnce
<1>3. Stacked'
  BY <1>1 DEF IInv, Stacked, Behind, RingsLen, RingOffset
<1>4. CheckedOnce'
  BY <1>1, <1>2 DEF CheckedOnce
<1>5. CASE WriteHead
  <2>1. Len(config) \in Nat /\ RingOffset \in Nat
    BY LayoutAssumption, SizeFacts DEF IInv, TypeOK
  <2>2. TypeOK'
    BY <1>1, <1>5, <2>1 DEF IInv, TypeOK, WriteHead
  <2>3. Ordered'
    BY <1>1, <1>2, <1>5 DEF Ordered, WriteHead, LaidOut, IInv, TypeOK
  <2> QED BY <1>3, <1>4, <2>2, <2>3 DEF IInv
<1>6. CASE StoreMagic
  <2>1. TypeOK'
    BY <1>1, <1>6 DEF IInv, TypeOK, StoreMagic
  <2>2. Ordered'
    BY <1>1, <1>2, <1>6 DEF Ordered, StoreMagic, IInv, TypeOK
  <2> QED BY <1>3, <1>4, <2>1, <2>2 DEF IInv
<1> QED BY <1>5, <1>6

(* A step of a client changes what that client has.                        *)
LEMMA InvOpen == ASSUME IInv, NEW c \in Client, Open(c) PROVE IInv'
<1>1. /\ UNCHANGED <<file, config, checked, head, infos, server>>
      /\ ~client[c].open /\ head.magic
      /\ client' = [client EXCEPT ![c].open = TRUE, ![c].ring_count = head.ring_count]
  BY DEF Open, MayOpen
<1>2. TypeOK /\ client[c] \in ClientState /\ head.ring_count \in Nat
  BY DEF IInv, TypeOK
<1>3. [client[c] EXCEPT !.open = TRUE, !.ring_count = head.ring_count] \in ClientState
  BY <1>2 DEF ClientState
<1>4. TypeOK'
  <2>1. client' \in [Client -> ClientState]
    BY <1>1, <1>2, <1>3 DEF TypeOK
  <2> QED BY <1>1, <1>2, <2>1 DEF TypeOK
<1>5. Stacked'
  BY <1>1 DEF IInv, Stacked, Behind, RingsLen, RingOffset
<1>6. /\ \A d \in Client : d # c => client'[d] = client[d]
      /\ client'[c].open /\ client'[c].ring_count = head.ring_count
      /\ \A d \in Client :
           client'[d].joined = client[d].joined /\ client'[d].base = client[d].base
  BY <1>1, <1>2 DEF TypeOK, ClientState
<1>7. Ordered'
  BY <1>1, <1>6 DEF IInv, Ordered
<1>8. CheckedOnce'
  <2>1. client[c].joined = {}
    BY <1>1 DEF IInv, CheckedOnce
  <2>2. ASSUME NEW d \in Client, NEW i \in client'[d].joined
        PROVE  client'[d].open /\ i \in DOMAIN infos
    <3>1. i \in client[d].joined /\ d # c
      BY <1>6, <2>1
    <3>2. client'[d] = client[d]
      BY <1>6, <3>1
    <3> QED BY <3>1, <3>2 DEF IInv, CheckedOnce
  <2>3. ASSUME NEW d \in Client, NEW i \in client'[d].joined
        PROVE  MayJoin(client'[d].base, infos[i])
    <3>1. i \in client[d].joined /\ client'[d].base = client[d].base
      BY <1>6
    <3> QED BY <3>1 DEF IInv, CheckedOnce
  <2>4. ASSUME NEW d \in Client, NEW i \in client'[d].joined
        PROVE  MayJoin(client[d].base, infos[i])'
    BY <1>1, <2>3 DEF MayJoin, IsInTail, TailSize
  <2> QED BY <1>1, <2>2, <2>4 DEF CheckedOnce
<1> QED BY <1>4, <1>5, <1>7, <1>8 DEF IInv

LEMMA InvJoin ==
  ASSUME IInv, NEW c \in Client, NEW i \in 1 .. Len(config), Join(c, i)
  PROVE  IInv'
<1>1. /\ UNCHANGED <<file, config, checked, head, infos, server>>
      /\ client[c].open /\ i \in DOMAIN infos /\ MayJoin(client[c].base, infos[i])
      /\ client' = [client EXCEPT ![c].joined = @ \cup {i}]
  BY DEF Join
<1>2. TypeOK /\ client[c] \in ClientState /\ i \in Nat \ {0}
  BY LayoutAssumption DEF IInv, TypeOK
<1>3. [client[c] EXCEPT !.joined = @ \cup {i}] \in ClientState
  BY <1>2 DEF ClientState
<1>4. TypeOK'
  <2>1. client' \in [Client -> ClientState]
    BY <1>1, <1>2, <1>3 DEF TypeOK
  <2> QED BY <1>1, <1>2, <2>1 DEF TypeOK
<1>5. Stacked'
  BY <1>1 DEF IInv, Stacked, Behind, RingsLen, RingOffset
<1>6. /\ \A d \in Client : d # c => client'[d] = client[d]
      /\ client'[c].joined = client[c].joined \cup {i}
      /\ \A d \in Client : /\ client'[d].open = client[d].open
                           /\ client'[d].ring_count = client[d].ring_count
                           /\ client'[d].base = client[d].base
  BY <1>1, <1>2 DEF TypeOK, ClientState
<1>7. Ordered'
  BY <1>1, <1>6 DEF IInv, Ordered
<1>8. CheckedOnce'
  BY <1>1, <1>6 DEF IInv, CheckedOnce, MayJoin, IsInTail, TailSize
<1> QED BY <1>4, <1>5, <1>7, <1>8 DEF IInv

LEMMA InvStep == IInv /\ [Next]_vars => IInv'
<1>1. IInv /\ Next => IInv'
  BY InvNew, InvLayOut, InvPublish, InvOpen, InvJoin DEF Next
<1>2. IInv /\ UNCHANGED vars => IInv'
  BY DEF vars, IInv, TypeOK, Stacked, Ordered, CheckedOnce, MayJoin, IsInTail, TailSize,
     Behind, RingsLen, RingOffset
<1> QED BY <1>1, <1>2

LEMMA Invariance == Spec => []IInv
<1> QED BY InvInit, InvStep, PTL DEF Spec

-----------------------------------------------------------------------------
(* The variables keep their types, and the server never takes more from    *)
(* its range than that has (offsets).                                      *)
THEOREM TypeCorrect == Spec => []TypeOK
<1>1. IInv => TypeOK
  BY DEF IInv
<1> QED BY <1>1, Invariance, PTL

(* Whoever finds the magic number finds the whole table (init, read_head). *)
THEOREM OpenedIsComplete == Spec => []OpenedComplete
<1>1. IInv => OpenedComplete
  BY DEF IInv, Ordered, OpenedComplete
<1> QED BY <1>1, Invariance, PTL

(* What a check has let through lies in the file, and is no larger than    *)
(* what the server took pages for, for its arithmetic did not wrap.        *)
LEMMA JoinedFacts ==
  ASSUME IInv, NEW i \in Joined
  PROVE  /\ i \in DOMAIN infos /\ infos[i] \in Info
         /\ infos[i].offset_head + RingHeadSize <= file
         /\ infos[i].offset_ring + infos[i].size_ring <= file
         /\ infos[i].offset_data + infos[i].size_data <= file
         /\ infos[i].size_ring <= PagesFor(infos[i].size_ring)
         /\ infos[i].size_data <= PagesFor(infos[i].size_data)
<1>1. PICK c \in Client : i \in client[c].joined
  BY DEF Joined
<1>2. i \in DOMAIN infos /\ MayJoin(client[c].base, infos[i]) /\ TypeOK
  BY <1>1 DEF IInv, CheckedOnce
<1>3. infos[i] \in Info
  BY <1>2 DEF TypeOK
<1> DEFINE info == infos[i]
<1>4. /\ info.offset_head \in Nat /\ info.offset_ring \in Nat /\ info.offset_data \in Nat
      /\ info.size_ring \in Nat /\ info.size_data \in Nat
  BY <1>3, LayoutAssumption DEF Info, U64
<1>5. /\ HeadSize <= info.offset_head
      /\ info.offset_head - HeadSize <= TailSize - RingHeadSize
      /\ HeadSize <= info.offset_ring /\ info.size_ring <= TailSize
      /\ info.offset_ring - HeadSize <= TailSize - info.size_ring
      /\ HeadSize <= info.offset_data /\ info.size_data <= TailSize
      /\ info.offset_data - HeadSize <= TailSize - info.size_data
  BY <1>2 DEF MayJoin, IsInTail
<1>6. /\ file \in Nat /\ HeadSize \in Nat /\ Page \in Nat /\ RingHeadSize \in Nat
      /\ file + Page <= Word /\ TailSize = file - HeadSize /\ Word \in Nat
  BY <1>2, SizeFacts, LayoutAssumption DEF TailSize
<1> HIDE DEF info
<1>7. info.size_ring + Page <= Word /\ info.size_data + Page <= Word
  BY <1>4, <1>5, <1>6
<1>8. /\ info.size_ring <= PagesFor(info.size_ring)
      /\ info.size_data <= PagesFor(info.size_data)
  BY <1>4, <1>7, PagesForFacts
<1>9. /\ info.offset_head + RingHeadSize <= file
      /\ info.offset_ring + info.size_ring <= file
      /\ info.offset_data + info.size_data <= file
  BY <1>4, <1>5, <1>6
<1> QED BY <1>2, <1>3, <1>8, <1>9 DEF info

(* The regions of a joined ring are in the file (join).                    *)
THEOREM JoinedIsInside == Spec => []JoinedInside
<1>1. IInv => JoinedInside
  BY JoinedFacts DEF JoinedInside, Part, To
<1> QED BY <1>1, Invariance, PTL

(* The parts of a joined ring lie one behind the other, after the table    *)
(* and in the pages the server took for it.                                *)
LEMMA JoinedOrder ==
  ASSUME IInv, NEW i \in Joined
  PROVE  /\ \A part \in Part : From(i, part) \in Nat /\ To(i, part) \in Nat
         /\ \A part \in Part : infos[i].offset_head <= From(i, part)
                               /\ To(i, part) <= End(infos[i])
         /\ To(i, "head") <= From(i, "ring") /\ To(i, "ring") <= From(i, "data")
         /\ To(i, "head") <= From(i, "data")
         /\ HeadSize + RingOffset + Len(infos) * InfoSize <= infos[i].offset_head
         /\ infos[i].offset_head \in Nat /\ End(infos[i]) \in Nat
<1> DEFINE info == infos[i]
<1>1. /\ i \in DOMAIN infos /\ info \in Info /\ TypeOK
      /\ info.size_ring <= PagesFor(info.size_ring)
      /\ info.size_data <= PagesFor(info.size_data)
  BY JoinedFacts DEF IInv
<1>2. /\ info.offset_head \in Nat /\ info.offset_ring \in Nat /\ info.offset_data \in Nat
      /\ info.size_ring \in Nat /\ info.size_data \in Nat
  BY <1>1, LayoutAssumption DEF Info, U64
<1>3. PagesFor(info.size_ring) \in Nat /\ PagesFor(info.size_data) \in Nat
  BY <1>2, PagesForFacts
<1>4. /\ info.offset_ring = info.offset_head + Page
      /\ info.offset_data = info.offset_ring + PagesFor(info.size_ring)
      /\ Behind <= info.offset_head
  BY <1>1 DEF IInv, Stacked
<1>5. Page \in Nat /\ RingHeadSize \in Nat /\ RingHeadSize <= Page
  BY <1>1, SizeFacts
<1>6. HeadSize + RingOffset + Len(infos) * InfoSize <= info.offset_head
  <2>1. \E c \in Client : client[c].open
    BY DEF Joined, IInv, CheckedOnce
  <2>2. Len(infos) = Len(config)
    BY <2>1 DEF IInv, Ordered
  <2>3. /\ Len(config) * InfoSize \in Nat /\ Len(config) * InfoSize <= RingsLen
        /\ Behind = HeadSize + RingOffset + RingsLen /\ RingsLen \in Nat
        /\ HeadSize \in Nat /\ RingOffset \in Nat
    BY <1>1, SizeFacts
  <2> QED BY <1>2, <1>4, <2>2, <2>3
<1> HIDE DEF info
<1>7. End(info) = info.offset_data + PagesFor(info.size_data)
  BY DEF End
<1>8. /\ From(i, "head") = info.offset_head
      /\ To(i, "head") = info.offset_head + RingHeadSize
      /\ From(i, "ring") = info.offset_ring
      /\ To(i, "ring") = info.offset_ring + info.size_ring
      /\ From(i, "data") = info.offset_data
      /\ To(i, "data") = info.offset_data + info.size_data
  BY DEF From, To, info
<1>9. /\ info.offset_head <= From(i, "head") /\ To(i, "head") <= From(i, "ring")
      /\ To(i, "ring") <= From(i, "data") /\ To(i, "data") <= End(info)
      /\ From(i, "ring") <= To(i, "ring") /\ From(i, "data") <= To(i, "data")
      /\ From(i, "head") <= To(i, "head") /\ End(info) \in Nat
  BY <1>1, <1>2, <1>3, <1>4, <1>5, <1>7, <1>8
<1>10. \A part \in Part : From(i, part) \in Nat /\ To(i, part) \in Nat
  BY <1>2, <1>5, <1>8 DEF Part
<1>11. \A part \in Part : info.offset_head <= From(i, part) /\ To(i, part) <= End(info)
  BY <1>2, <1>9, <1>10 DEF Part
<1> QED BY <1>2, <1>6, <1>9, <1>10, <1>11 DEF info, Part

(* The regions of joined rings are apart (offsets, page_requirement, join).*)
THEOREM JoinedIsApart == Spec => []JoinedApart
<1>1. IInv => JoinedApart
  <2> SUFFICES ASSUME IInv, NEW i \in Joined, NEW part \in Part
               PROVE  /\ HeadSize + RingOffset + Len(infos) * InfoSize <= From(i, part)
                      /\ \A j \in Joined, other \in Part :
                           <<i, part>> # <<j, other>> =>
                             \/ To(i, part) <= From(j, other)
                             \/ To(j, other) <= From(i, part)
    BY DEF JoinedApart
  <2>1. HeadSize + RingOffset + Len(infos) * InfoSize <= From(i, part)
    <3>1. HeadSize + RingOffset + Len(infos) * InfoSize \in Int
      <4>1. HeadSize \in Nat /\ RingOffset \in Nat /\ TypeOK
        BY SizeFacts DEF IInv
      <4>2. Len(infos) * InfoSize \in Nat
        BY <4>1, LayoutAssumption DEF TypeOK
      <4> QED BY <4>1, <4>2
    <3> QED BY <3>1, JoinedOrder
  <2>2. ASSUME NEW j \in Joined, NEW other \in Part, <<i, part>> # <<j, other>>
        PROVE  To(i, part) <= From(j, other) \/ To(j, other) <= From(i, part)
    <3>1. CASE i = j
      <4>1. part # other
        BY <2>2, <3>1
      <4> QED BY <3>1, <4>1, JoinedOrder DEF Part
    <3>2. CASE i # j
      <4>1. /\ i \in DOMAIN infos /\ j \in DOMAIN infos
            /\ \A k, l \in DOMAIN infos : k < l => End(infos[k]) <= infos[l].offset_head
        BY JoinedFacts DEF IInv, Stacked
      <4>2. i \in Nat /\ j \in Nat
        BY <4>1 DEF IInv, TypeOK
      <4>3. CASE i < j
        <5>1. To(i, part) <= End(infos[i]) /\ infos[j].offset_head <= From(j, other)
          BY JoinedOrder
        <5> QED BY <4>1, <4>3, <5>1, JoinedOrder
      <4>4. CASE j < i
        <5>1. To(j, other) <= End(infos[j]) /\ infos[i].offset_head <= From(i, part)
          BY JoinedOrder
        <5> QED BY <4>1, <4>4, <5>1, JoinedOrder
      <4> QED BY <3>2, <4>2, <4>3, <4>4
    <3> QED BY <3>1, <3>2
  <2> QED BY <2>1, <2>2
<1> QED BY <1>1, Invariance, PTL

-----------------------------------------------------------------------------
(* What the server has accepted and where it has put it: each ring begins  *)
(* with a page, has sizes the server has looked at, and has at least the   *)
(* page of its head, of which the file with the table has enough.          *)
Vetted(info) ==
  /\ info.offset_head % Page = 0
  /\ PowerOfTwo(info.size_slot_entry)
  /\ info.size_ring % info.size_slot_entry = 0
  /\ PowerOfTwo(info.size_ring \div info.size_slot_entry)

Paged ==
  /\ server.pc \in {"offsets", "magic", "up"} =>
       /\ RingOffset <= TailSize /\ server.range.end = TailSize - RingOffset + Behind
       /\ Behind + Len(infos) * Page <= server.range.start
  /\ server.pc = "offsets" => server.range.start % Page = 0
  /\ server.pc \in {"magic", "up"} => head.ring_offset = RingOffset
  /\ server.pc = "up" => head.magic

Served == (\A i \in DOMAIN infos : Vetted(infos[i])) /\ Paged

-----------------------------------------------------------------------------
(* Multiples, as remainders and as products.                               *)
LEMMA Multiple ==
  ASSUME NEW n \in Int, NEW d \in Nat \ {0}
  PROVE  n % d = 0 <=> \E k \in Int : n = d * k
<1> DEFINE q == n \div d
           r == n % d
<1>1. q \in Int /\ r \in 0 .. d - 1 /\ n = d * q + r
  OBVIOUS
<1> HIDE DEF q
<1>2. ASSUME r = 0 PROVE \E k \in Int : n = d * k
  BY <1>1, <1>2
<1>3. ASSUME NEW k \in Int, n = d * k PROVE r = 0
  <2> HIDE DEF r
  <2>1. d * (k - q) = r
    BY <1>1, <1>3
  <2>2. k - q \in Int
    BY <1>1
  <2>3. k - q >= 1 => d * (k - q) >= d
    BY <2>2
  <2>4. k - q <= -1 => d * (k - q) <= -d
    BY <2>2
  <2>5. k - q = 0
    BY <1>1, <2>1, <2>2, <2>3, <2>4
  <2> QED BY <2>1, <2>5
<1> QED BY <1>2, <1>3

LEMMA Factor ==
  ASSUME NEW n \in Int, NEW d \in Nat \ {0}, n % d = 0
  PROVE  \E k \in Int : n = d * k
BY Multiple

LEMMA MultipleSum ==
  ASSUME NEW m \in Int, NEW n \in Int, NEW d \in Nat \ {0}, m % d = 0, n % d = 0
  PROVE  (m + n) % d = 0
<1>1. PICK k \in Int : m = d * k
  BY Multiple
<1>2. PICK l \in Int : n = d * l
  BY Multiple
<1>3. k + l \in Int /\ m + n = d * (k + l)
  BY <1>1, <1>2
<1> QED BY <1>3, Multiple

LEMMA MultipleOf ==
  ASSUME NEW n \in Int, NEW m \in Nat \ {0}, NEW d \in Nat \ {0}, n % m = 0, m % d = 0
  PROVE  n % d = 0
<1>1. PICK k \in Int : n = m * k
  BY Multiple
<1>2. PICK l \in Int : m = d * l
  BY Multiple
<1>3. l * k \in Int /\ n = d * (l * k)
  BY <1>1, <1>2
<1> QED BY <1>3, Multiple

LEMMA PadOfMultiple ==
  ASSUME NEW n \in Int, NEW a \in Nat \ {0}, n % a = 0
  PROVE  Pad(n, a) = 0
<1>1. PICK k \in Int : n = a * k
  BY Multiple
<1>2. -k \in Int /\ 0 - n = a * (-k) /\ 0 - n \in Int
  BY <1>1
<1>3. (0 - n) % a = 0
  BY <1>2, Multiple
<1> QED BY <1>3 DEF Pad

LEMMA PadCompletes ==
  ASSUME NEW n \in Int, NEW a \in Nat \ {0}
  PROVE  (n + Pad(n, a)) % a = 0
<1> DEFINE q == (0 - n) \div a
           r == (0 - n) % a
<1>1. q \in Int /\ r \in Nat /\ 0 - n = a * q + r
  <2>1. 0 - n \in Int
    OBVIOUS
  <2> QED BY <2>1
<1>2. Pad(n, a) = r
  BY DEF Pad
<1> HIDE DEF q, r
<1>3. -q \in Int /\ n + r = a * (-q) /\ n + r \in Int
  BY <1>1
<1> QED BY <1>2, <1>3, Multiple

(* Powers of two below the width of a word.                                *)
LEMMA PowerFacts ==
  ASSUME NEW n, PowerOfTwo(n)
  PROVE  n \in Nat \ {0} /\ n < Word /\ 2 * n <= Word
<1>1. PICK k \in 0 .. Bits - 1 : n = 2 ^ k
  BY DEF PowerOfTwo
<1>2. k \in Nat /\ Bits \in Nat /\ Word = 2 ^ Bits /\ k < Bits /\ k + 1 \in Nat /\ k + 1 <= Bits
  BY LayoutAssumption
<1>3. n \in Nat \ {0} /\ Word \in Nat
  BY <1>1, <1>2, Powers!PowerLess
<1>4. 2 ^ (k + 1) = n * 2
  BY <1>1, <1>2, Powers!PowerNext
<1>5. 2 ^ (k + 1) <= Word
  BY <1>2, Powers!PowerLess
<1> QED BY <1>3, <1>4, <1>5

(* What two powers of two multiply to is one, if it is a word at all; it   *)
(* is no smaller than either.                                              *)
LEMMA PowerProduct ==
  ASSUME NEW m, NEW n, PowerOfTwo(m), PowerOfTwo(n), m * n < Word
  PROVE  PowerOfTwo(m * n) /\ m <= m * n
<1>1. PICK k \in 0 .. Bits - 1 : m = 2 ^ k
  BY DEF PowerOfTwo
<1>2. PICK l \in 0 .. Bits - 1 : n = 2 ^ l
  BY DEF PowerOfTwo
<1>3. k \in Nat /\ l \in Nat /\ Bits \in Nat /\ Word = 2 ^ Bits /\ k + l \in Nat
  BY LayoutAssumption
<1>4. m * n = 2 ^ (k + l)
  BY <1>1, <1>2, <1>3, Powers!PowerSum
<1>5. k + l < Bits
  BY <1>3, <1>4, Powers!PowerLess
<1>6. k + l \in 0 .. Bits - 1
  BY <1>3, <1>5
<1>7. m <= m * n
  BY <1>1, <1>3, <1>4, Powers!PowerLess
<1> QED BY <1>4, <1>6, <1>7 DEF PowerOfTwo

(* A page is a multiple of the smaller powers, and a word one of a page.   *)
LEMMA PageIsPower ==
  /\ \A n : PowerOfTwo(n) /\ n <= Page => Page % n = 0
  /\ Word % Page = 0
<1>1. PICK p \in 0 .. Bits : Page = 2 ^ p
  BY LayoutAssumption
<1>2. p \in Nat /\ Bits \in Nat /\ Word = 2 ^ Bits /\ Page \in Nat \ {0} /\ Word \in Nat \ {0}
  BY LayoutAssumption
<1>3. ASSUME NEW n, PowerOfTwo(n), n <= Page
      PROVE  Page % n = 0
  <2>1. PICK k \in 0 .. Bits - 1 : n = 2 ^ k
    BY <1>3 DEF PowerOfTwo
  <2>2. k \in Nat /\ n \in Nat \ {0}
    BY <1>2, <1>3, PowerFacts
  <2>3. p - k \in Nat /\ Page = n * 2 ^ (p - k)
    BY <1>1, <1>2, <1>3, <2>1, <2>2, Powers!PowerDivides
  <2>4. 2 ^ (p - k) \in Int
    BY <2>3, Powers!PowerLess
  <2> QED BY <1>2, <2>2, <2>3, <2>4, Multiple
<1>4. Word % Page = 0
  <2>1. 2 ^ p <= 2 ^ Bits
    BY <1>2, Powers!PowerLess
  <2>2. Bits - p \in Nat /\ Word = Page * 2 ^ (Bits - p)
    BY <1>1, <1>2, <2>1, Powers!PowerDivides
  <2>3. 2 ^ (Bits - p) \in Int
    BY <2>2, Powers!PowerLess
  <2>4. \E k \in Int : Word = Page * k
    BY <2>2, <2>3
  <2>5. Word \in Int /\ Page \in Nat \ {0}
    BY <1>2
  <2> QED BY <2>4, <2>5, Multiple
<1> QED BY <1>3, <1>4

(* Pages are pages, even if their bytes wrapped.                           *)
LEMMA PagesForIsPages ==
  ASSUME NEW n \in Nat
  PROVE  PagesFor(n) \in Nat /\ \E k \in Int : PagesFor(n) = Page * k
<1> DEFINE p == page_requirement(n)
           m == p * Page
           q == m \div Word
           r == m % Word
<1>1. p \in Nat /\ m \in Nat /\ Page \in Nat \ {0} /\ Word \in Nat \ {0}
  BY PageFacts, LayoutAssumption
<1>2. m % Page = 0
  <2>1. m = Page * p /\ p \in Int /\ m \in Int
    BY <1>1
  <2> HIDE DEF p, m
  <2> QED BY <1>1, <2>1, Multiple
<1>3. PagesFor(n) = r
  BY DEF PagesFor
<1> HIDE DEF m, p
<1>4. q \in Int /\ r \in Nat /\ m = Word * q + r
  BY <1>1
<1> HIDE DEF q, r
<1>5. (Word * (-q)) % Page = 0
  <2>1. Word * (-q) \in Int /\ -q \in Int
    BY <1>1, <1>4
  <2>2. (Word * (-q)) % Word = 0
    BY <1>1, <2>1, Multiple
  <2> QED BY <1>1, <2>1, <2>2, PageIsPower, MultipleOf
<1>6. r = m + Word * (-q) /\ Word * (-q) \in Int /\ m \in Int
  BY <1>1, <1>4
<1>7. r % Page = 0
  BY <1>1, <1>2, <1>5, <1>6, MultipleSum
<1>8. \E k \in Int : r = Page * k
  <2>1. r \in Int
    BY <1>4
  <2> QED BY <1>1, <1>7, <2>1, Factor
<1> QED BY <1>3, <1>4, <1>8

-----------------------------------------------------------------------------
LEMMA ServedInit == Init => Served
<1> SUFFICES ASSUME Init PROVE Served
  OBVIOUS
<1>1. DOMAIN infos = {} /\ server.pc = "new"
  BY DEF Init
<1> QED BY <1>1 DEF Served, Paged

(* Where the file and the configuration stay, so do the offsets.           *)
LEMMA SameOffsets ==
  ASSUME UNCHANGED <<file, config>>
  PROVE  TailSize' = TailSize /\ RingOffset' = RingOffset /\ Behind' = Behind
BY DEF TailSize, RingOffset, Behind, RingsLen

LEMMA ServedNew == IInv /\ Served /\ New => Served'
<1> SUFFICES ASSUME IInv, Served, New PROVE Served'
  OBVIOUS
<1>1. /\ UNCHANGED <<file, config, infos>> /\ TypeOK
      /\ infos = <<>> /\ DOMAIN infos = {} /\ Len(infos) = 0
  <2>1. server.pc = "new" /\ UNCHANGED <<file, config, infos>>
    BY DEF New
  <2>2. infos = <<>>
    BY <2>1 DEF IInv, Stacked
  <2> QED BY <2>1, <2>2 DEF IInv
<1>2. \A i \in DOMAIN infos' : Vetted(infos'[i])
  BY <1>1
<1>3. CASE Begins /\ server' = [pc |-> "offsets", range |-> Rest(Left, Pad(Behind, Page))]
  <2>1. Rest(Left, Pad(Behind, Page))
          = [start |-> Behind + Pad(Behind, Page), end |-> TailSize - RingOffset + Behind]
    BY DEF Rest, Left
  <2>2. /\ server'.pc = "offsets"
        /\ server'.range.start = Behind + Pad(Behind, Page)
        /\ server'.range.end = TailSize - RingOffset + Behind
    BY <1>3, <2>1
  <2>3. Behind \in Nat /\ Pad(Behind, Page) \in Nat /\ Page \in Nat \ {0}
    BY <1>1, SizeFacts
  <2>4. (Behind + Pad(Behind, Page)) % Page = 0
    BY <2>3, PadCompletes
  <2>5. Behind + 0 * Page <= Behind + Pad(Behind, Page)
    BY <2>3
  <2>6. RingOffset <= TailSize
    BY <1>3 DEF Begins
  <2>7. Paged'
    BY <1>1, <2>2, <2>4, <2>5, <2>6, SameOffsets DEF Paged
  <2> QED BY <1>2, <2>7 DEF Served
<1>4. CASE Fails
  <2>1. server'.pc = "failed"
    BY <1>1, <1>4 DEF Fails, TypeOK
  <2> QED BY <1>2, <2>1 DEF Served, Paged
<1> QED BY <1>3, <1>4 DEF New

(* A ring takes whole pages, and one at least.                             *)
LEMMA TakesPages ==
  ASSUME NEW c \in RingConfig
  PROVE  Takes(c) \in Nat /\ Page <= Takes(c) /\ Takes(c) % Page = 0
<1>1. c.ring_size \in Nat /\ c.data_size \in Nat /\ Page \in Nat \ {0}
  BY LayoutAssumption DEF RingConfig, U64
<1>2. PagesFor(c.ring_size) \in Nat /\ PagesFor(c.data_size) \in Nat
  BY <1>1, PagesForIsPages
<1>3. PICK k \in Int : PagesFor(c.ring_size) = Page * k
  BY <1>1, PagesForIsPages
<1>4. PICK l \in Int : PagesFor(c.data_size) = Page * l
  BY <1>1, PagesForIsPages
<1>5. Takes(c) = Page + PagesFor(c.ring_size) + PagesFor(c.data_size)
  BY DEF Takes
<1>6. Takes(c) \in Nat /\ Page <= Takes(c)
  BY <1>1, <1>2, <1>5
<1>7. 1 + k + l \in Int /\ Takes(c) = Page * (1 + k + l)
  BY <1>1, <1>3, <1>4, <1>5
<1>8. Takes(c) % Page = 0
  BY <1>1, <1>6, <1>7, Multiple
<1> QED BY <1>6, <1>8

LEMMA ServedLayOut == IInv /\ Served /\ LayOut => Served'
<1> SUFFICES ASSUME IInv, Served, LayOut PROVE Served'
  OBVIOUS
<1> DEFINE start == server.range.start
           info == InfoFor(Coming, start)
<1>1. /\ UNCHANGED <<file, config, head>> /\ server.pc = "offsets"
      /\ Len(infos) < Len(config)
  BY DEF LayOut
<1>2. /\ TypeOK /\ infos \in Seq(Info) /\ Len(infos) \in Nat /\ DOMAIN infos = 1 .. Len(infos)
      /\ server.range \in Range /\ start \in Nat /\ Coming \in RingConfig
  BY <1>1, LayoutAssumption, ComingType DEF IInv, TypeOK, Range
<1>3. CASE Fails /\ UNCHANGED infos
  <2>1. server'.pc = "failed"
    BY <1>2, <1>3 DEF Fails, TypeOK
  <2> QED BY <1>3, <2>1 DEF Served, Paged
<1>4. CASE /\ Fits(Coming) /\ infos' = Append(infos, info)
           /\ server' = [server EXCEPT !.range = Rest(@, Takes(Coming))]
  <2>1. /\ start % Page = 0 /\ RingOffset <= TailSize
        /\ server.range.end = TailSize - RingOffset + Behind
        /\ Behind + Len(infos) * Page <= start
    BY <1>1 DEF Served, Paged
  <2>2. Vetted(info)
    BY <1>4, <2>1 DEF Vetted, InfoFor, Fits, Accepts
  <2>3. info \in Info
    BY <1>2, InfoType
  <2> HIDE DEF info
  <2>4. \A i \in DOMAIN infos' : Vetted(infos'[i])
    <3>1. ASSUME NEW i \in DOMAIN infos' PROVE Vetted(infos'[i])
      <4>1. DOMAIN infos' = 1 .. Len(infos) + 1
        BY <1>2, <1>4, <2>3
      <4>2. CASE i = Len(infos) + 1
        BY <1>2, <1>4, <2>2, <2>3, <4>2
      <4>3. CASE i # Len(infos) + 1
        <5>1. i \in DOMAIN infos
          BY <1>2, <3>1, <4>1, <4>3
        <5>2. infos'[i] = infos[i]
          BY <1>2, <1>4, <2>3, <5>1
        <5> QED BY <5>1, <5>2 DEF Served
      <4> QED BY <4>2, <4>3
    <3> QED BY <3>1
  <2>5. Takes(Coming) \in Nat /\ Page <= Takes(Coming) /\ Takes(Coming) % Page = 0
    BY <1>2, TakesPages
  <2>6. /\ server'.pc = "offsets"
        /\ server'.range.start = start + Takes(Coming)
        /\ server'.range.end = server.range.end
    BY <1>1, <1>2, <1>4 DEF TypeOK, Range, Rest
  <2>7. Page \in Nat \ {0} /\ Behind \in Nat
    BY <1>2, SizeFacts
  <2>8. (start + Takes(Coming)) % Page = 0
    BY <1>2, <2>1, <2>5, <2>7, MultipleSum
  <2>9. Behind + Len(infos') * Page <= start + Takes(Coming)
    <3>1. Len(infos') = Len(infos) + 1
      BY <1>2, <1>4, <2>3
    <3>2. (Len(infos) + 1) * Page = Len(infos) * Page + Page /\ Len(infos) * Page \in Nat
      BY <1>2, <2>7
    <3> HIDE DEF start
    <3> QED BY <1>2, <2>1, <2>5, <2>7, <3>1, <3>2
  <2>10. Paged'
    BY <1>1, <2>1, <2>6, <2>8, <2>9, SameOffsets DEF Paged
  <2> QED BY <2>4, <2>10 DEF Served
<1> QED BY <1>3, <1>4 DEF LayOut

LEMMA ServedPublish == IInv /\ Served /\ (WriteHead \/ StoreMagic) => Served'
<1> SUFFICES ASSUME IInv, Served, WriteHead \/ StoreMagic PROVE Served'
  OBVIOUS
<1>1. /\ UNCHANGED <<file, config, infos>>
      /\ server'.range = server.range
      /\ server.pc \in {"offsets", "magic"} /\ server'.pc \in {"magic", "up"}
  BY DEF WriteHead, StoreMagic, IInv, TypeOK
<1>2. head'.ring_offset = RingOffset
  <2>1. CASE WriteHead
    BY <2>1 DEF WriteHead
  <2>2. CASE StoreMagic
    BY <2>2 DEF StoreMagic, Served, Paged, IInv, TypeOK
  <2> QED BY <2>1, <2>2
<1>3. server'.pc = "up" => head'.magic
  BY DEF WriteHead, StoreMagic, IInv, TypeOK
<1> QED BY <1>1, <1>2, <1>3, SameOffsets DEF Served, Paged

LEMMA ServedStep == IInv /\ Served /\ [Next]_vars => Served'
<1> SUFFICES ASSUME IInv, Served, [Next]_vars PROVE Served'
  OBVIOUS
<1>1. CASE UNCHANGED <<file, config, head, infos, server>>
  BY <1>1, SameOffsets DEF Served, Paged
<1>2. ASSUME NEW c \in Client, Open(c) \/ \E i \in 1 .. Len(config) : Join(c, i)
      PROVE  UNCHANGED <<file, config, head, infos, server>>
  BY <1>2 DEF Open, Join
<1>3. CASE UNCHANGED vars
  BY <1>1, <1>3 DEF vars
<1> QED BY <1>1, <1>2, <1>3, ServedNew, ServedLayOut, ServedPublish DEF Next

LEMMA ServedAlways == Spec => [](IInv /\ Served)
<1> QED BY InvInit, InvStep, ServedInit, ServedStep, PTL DEF Spec

-----------------------------------------------------------------------------
(* The entries of a ring that was laid out are a power of two of entries   *)
(* whose size is one, and so are the bytes of all of them.                 *)
LEMMA VettedSizes ==
  ASSUME IInv, Served, NEW i \in DOMAIN infos
  PROVE  /\ infos[i] \in Info
         /\ PowerOfTwo(infos[i].size_slot_entry) /\ PowerOfTwo(infos[i].size_ring)
         /\ infos[i].size_slot_entry <= infos[i].size_ring
         /\ infos[i].size_ring % infos[i].size_slot_entry = 0
<1> DEFINE slot == infos[i].size_slot_entry
           ring == infos[i].size_ring
           q    == ring \div slot
<1>1. infos[i] \in Info /\ PowerOfTwo(slot) /\ ring % slot = 0 /\ PowerOfTwo(q)
  BY DEF IInv, TypeOK, Served, Vetted
<1>2. ring \in Nat /\ ring < Word /\ slot \in Nat \ {0}
  BY <1>1, PowerFacts, LayoutAssumption DEF Info, U64
<1>3. ring = slot * q
  <2> HIDE DEF ring, slot
  <2> QED BY <1>1, <1>2
<1> HIDE DEF q
<1>4. PowerOfTwo(slot * q) /\ slot <= slot * q
  BY <1>1, <1>2, <1>3, PowerProduct
<1> QED BY <1>1, <1>3, <1>4

(* What the two sides of a ring assert of it holds, for the server has     *)
(* looked at the sizes before it wrote them (offsets; ring.rs).            *)
THEOREM AssertionsAlwaysHold == Spec => []AssertionsHold
<1>1. IInv /\ Served => AssertionsHold
  <2> SUFFICES ASSUME IInv, Served, NEW i \in Joined
               PROVE  /\ PowerOfTwo(infos[i].size_ring)
                      /\ PowerOfTwo(infos[i].size_slot_entry)
                      /\ infos[i].size_slot_entry <= infos[i].size_ring
    BY DEF AssertionsHold
  <2>1. i \in DOMAIN infos
    BY DEF Joined, IInv, CheckedOnce
  <2> QED BY <2>1, VettedSizes
<1> QED BY <1>1, ServedAlways, PTL

-----------------------------------------------------------------------------
(* Addresses are pages, and pages are aligned.                             *)
LEMMA AlignedOffset ==
  ASSUME NEW b \in Bases, NEW n \in Int, n % Page = 0,
         NEW a \in Nat \ {0}, Page % a = 0
  PROVE  Pad(b + n, a) = 0
<1>1. b \in Int /\ b % Page = 0 /\ Page \in Nat \ {0}
  BY LayoutAssumption
<1>2. PICK k \in Int : b = Page * k
  BY <1>1, Factor
<1>3. PICK l \in Int : n = Page * l
  BY <1>1, Factor
<1>4. PICK m \in Int : Page = a * m
  <2>1. Page \in Int
    BY <1>1
  <2> QED BY <2>1, Factor
<1>5. b + n = Page * (k + l) /\ k + l \in Int
  BY <1>1, <1>2, <1>3
<1>6. b + n = a * (m * (k + l)) /\ m * (k + l) \in Int /\ b + n \in Int
  BY <1>1, <1>4, <1>5
<1>7. (b + n) % a = 0
  BY <1>6, Multiple
<1> QED BY <1>6, <1>7, PadOfMultiple

LEMMA PageBehind ==
  ASSUME NEW n \in Nat, n % Page = 0
  PROVE  (n + Page) % Page = 0
<1>1. Page \in Nat \ {0} /\ n \in Int /\ n + Page \in Int
  BY LayoutAssumption
<1>2. PICK k \in Int : n = Page * k
  BY <1>1, Factor
<1>3. n + Page = Page * (k + 1) /\ k + 1 \in Int
  BY <1>1, <1>2
<1> QED BY <1>1, <1>3, Multiple

(* The table fits into the tail of the file, even if its length wrapped:   *)
(* there is a page for every ring.                                         *)
LEMMA ServedTable ==
  ASSUME IInv, Served, server.pc = "up", head.magic, NEW b \in Bases
  PROVE  MayOpen(b)
<1>1. /\ TypeOK /\ head.ring_count = Len(infos) /\ Len(infos) = Len(config)
      /\ head.ring_offset = RingOffset /\ RingOffset <= TailSize
      /\ server.range.end = TailSize - RingOffset + Behind
      /\ Behind + Len(infos) * Page <= server.range.start
  BY DEF IInv, Ordered, Served, Paged
<1>2. /\ RingOffset \in Nat /\ TailSize \in Nat /\ Behind \in Nat /\ HeadSize \in Nat
      /\ Page \in Nat \ {0} /\ Align \in Nat \ {0} /\ InfoSize \in 1 .. Page
      /\ server.range.start \in Nat /\ server.range.start <= server.range.end
      /\ Len(infos) \in Nat
  BY <1>1, SizeFacts, LayoutAssumption DEF TypeOK, Range
<1>3. Pad(b + HeadSize + head.ring_offset, Align) = 0
  <2>1. (HeadSize + RingOffset) % Align = 0 /\ HeadSize + RingOffset \in Int
    BY <1>2, PadCompletes DEF RingOffset
  <2>2. b \in Int /\ b % Align = 0
    <3>1. b \in Int /\ b % Page = 0 /\ Page % Align = 0
      BY LayoutAssumption
    <3> QED BY <1>2, <3>1, MultipleOf
  <2>3. (b + (HeadSize + RingOffset)) % Align = 0
    BY <1>2, <2>1, <2>2, MultipleSum
  <2>4. b + HeadSize + head.ring_offset = b + (HeadSize + RingOffset)
    BY <1>1, <1>2, <2>2
  <2>5. b + (HeadSize + RingOffset) \in Int
    BY <2>1, <2>2
  <2> QED BY <1>2, <2>3, <2>4, <2>5, PadOfMultiple
<1>4. Len(infos) <= (TailSize - RingOffset) \div InfoSize
  <2> DEFINE n == Len(infos)
             left == TailSize - RingOffset
             q == left \div InfoSize
  <2>1. n \in Nat /\ left \in Nat /\ InfoSize \in Nat \ {0}
    BY <1>1, <1>2
  <2>2. n * InfoSize <= left
    <3>1. n * Page <= left
      BY <1>1, <1>2
    <3>2. n * InfoSize <= n * Page /\ n * InfoSize \in Nat /\ n * Page \in Nat
      <4> HIDE DEF n
      <4> QED BY <1>2, <2>1
    <3> HIDE DEF n, left
    <3> QED BY <2>1, <3>1, <3>2
  <2> HIDE DEF n, left
  <2>3. q \in Nat /\ left < InfoSize * q + InfoSize
    BY <2>1
  <2> HIDE DEF q
  <2>4. n > q => n * InfoSize >= (q + 1) * InfoSize
    BY <2>1, <2>3
  <2>5. (q + 1) * InfoSize = InfoSize * q + InfoSize /\ n * InfoSize \in Nat
    BY <2>1, <2>3
  <2>6. n <= q
    BY <2>1, <2>2, <2>3, <2>4, <2>5
  <2> QED BY <2>6 DEF n, left, q
<1> QED BY <1>1, <1>3, <1>4 DEF MayOpen

(* A ring that lies in the file passes all checks of join, for its sizes   *)
(* are then so small that nothing wrapped when its pages were computed.    *)
LEMMA ServedRing ==
  ASSUME IInv, Served, NEW b \in Bases, NEW i \in DOMAIN infos,
         infos[i].offset_data + infos[i].size_data <= file,
         infos[i].size_slot_entry <= Page
  PROVE  MayJoin(b, infos[i])
<1> DEFINE info == infos[i]
           slot == info.size_slot_entry
<1>1. /\ TypeOK /\ info \in Info
      /\ info.offset_head % Page = 0 /\ Behind <= info.offset_head
      /\ info.offset_ring = info.offset_head + Page
      /\ info.offset_data = info.offset_ring + PagesFor(info.size_ring)
  BY VettedSizes DEF IInv, Stacked, Served, Vetted
<1>2. /\ PowerOfTwo(slot) /\ PowerOfTwo(info.size_ring) /\ info.size_ring % slot = 0
      /\ slot \in Nat \ {0} /\ 2 * info.size_ring <= Word
  BY VettedSizes, PowerFacts
<1>3. /\ info.offset_head \in Nat /\ info.offset_ring \in Nat /\ info.offset_data \in Nat
      /\ info.size_ring \in Nat /\ info.size_data \in Nat
  BY <1>1, LayoutAssumption DEF Info, U64
<1>4. /\ file \in Nat /\ HeadSize \in Nat /\ HeadSize <= file /\ 2 * (file + Page) <= Word
      /\ TailSize = file - HeadSize /\ Page \in Nat \ {0} /\ Word \in Nat
      /\ RingHeadSize \in Nat /\ RingHeadSize <= Page /\ Align \in Nat \ {0}
      /\ Page % Align = 0 /\ Behind \in Nat /\ HeadSize <= Behind
      /\ b \in Nat /\ b % Page = 0
  <2>1. Behind = HeadSize + RingOffset + RingsLen /\ RingOffset \in Nat /\ RingsLen \in Nat
        /\ HeadSize \in Nat /\ Behind \in Nat
    BY <1>1, SizeFacts
  <2>2. HeadSize <= Behind
    BY <2>1
  <2> QED BY <1>1, <2>1, <2>2, LayoutAssumption DEF TypeOK, TailSize
<1>5. /\ PagesFor(info.size_ring) \in Nat /\ info.size_ring <= PagesFor(info.size_ring)
  <2>1. info.size_ring + Page <= Word
    BY <1>2, <1>3, <1>4
  <2> QED BY <1>3, <2>1, PagesForFacts
<1>6. info.offset_data + info.size_data <= file
  OBVIOUS
<1>7. Bits \in Nat /\ Bits # 0
  <2>1. Word # 1
    BY <1>4
  <2> QED BY <2>1, LayoutAssumption, Powers!PowerOne
<1>8. PowerOfTwo(1)
  <2>1. 0 \in 0 .. Bits - 1
    BY <1>7
  <2>2. 1 = 2 ^ 0
    BY Powers!PowerOne
  <2> QED BY <2>1, <2>2 DEF PowerOfTwo
<1>9. slot <= Page
  OBVIOUS
<1> HIDE DEF info
<1>10. IsInTail(b, info.offset_head, RingHeadSize, Align)
  <2>1. Pad(b + info.offset_head, Align) = 0
    BY <1>1, <1>3, <1>4, AlignedOffset
  <2>2. HeadSize <= info.offset_head /\ RingHeadSize <= TailSize
        /\ info.offset_head - HeadSize <= TailSize - RingHeadSize
    BY <1>1, <1>3, <1>4, <1>5, <1>6
  <2> QED BY <2>1, <2>2 DEF IsInTail
<1>11. IsLayout(info.size_ring, slot)
  <2>1. Pad(info.size_ring, slot) = 0
    BY <1>2, <1>3, PadOfMultiple
  <2>2. 2 * info.size_ring < Word
    BY <1>1, <1>3, <1>4, <1>5, <1>6
  <2>3. 2 * (info.size_ring + 0) < Word
    BY <1>3, <2>2
  <2> QED BY <1>2, <2>1, <2>3 DEF IsLayout
<1>12. IsInTail(b, info.offset_ring, info.size_ring, slot)
  <2>1. info.offset_ring % Page = 0
    BY <1>1, <1>3, PageBehind
  <2>2. Page % slot = 0
    BY <1>2, <1>9, PageIsPower
  <2>3. Pad(b + info.offset_ring, slot) = 0
    BY <1>2, <1>3, <1>4, <2>1, <2>2, AlignedOffset
  <2>4. /\ HeadSize <= info.offset_ring /\ info.size_ring <= TailSize
        /\ info.offset_ring - HeadSize <= TailSize - info.size_ring
    BY <1>1, <1>3, <1>4, <1>5, <1>6
  <2> QED BY <2>3, <2>4 DEF IsInTail
<1>13. IsLayout(info.size_data, 1)
  <2>1. info.size_data % 1 = 0
    BY <1>3
  <2>2. Pad(info.size_data, 1) = 0
    BY <1>3, <2>1, PadOfMultiple
  <2>3. 2 * (info.size_data + 0) < Word
    BY <1>3, <1>4, <1>6
  <2> QED BY <1>8, <2>2, <2>3 DEF IsLayout
<1>14. IsInTail(b, info.offset_data, info.size_data, 1)
  <2>1. b + info.offset_data \in Int /\ (b + info.offset_data) % 1 = 0
    BY <1>3, <1>4
  <2>2. Pad(b + info.offset_data, 1) = 0
    BY <2>1, PadOfMultiple
  <2>3. /\ HeadSize <= info.offset_data /\ info.size_data <= TailSize
        /\ info.offset_data - HeadSize <= TailSize - info.size_data
    BY <1>1, <1>3, <1>4, <1>5, <1>6
  <2> QED BY <2>2, <2>3 DEF IsInTail
<1> QED BY <1>10, <1>11, <1>12, <1>13, <1>14 DEF MayJoin, info

(* What the server brings up, each client can open, and join each of its   *)
(* rings that lie in the file (new and offsets; Client::new and join).     *)
THEOREM ServedIsAlwaysUsable == Spec => []ServedIsUsable
<1>1. IInv /\ Served => ServedIsUsable
  <2> SUFFICES ASSUME IInv, Served, server.pc = "up", NEW c \in Client
               PROVE  /\ MayOpen(client[c].base)
                      /\ \A i \in DOMAIN infos :
                           To(i, "data") <= file /\ infos[i].size_slot_entry <= Page
                           => MayJoin(client[c].base, infos[i])
    BY DEF ServedIsUsable
  <2>1. client[c].base \in Bases
    BY DEF IInv, TypeOK, ClientState
  <2>2. \A i \in DOMAIN infos : To(i, "data") = infos[i].offset_data + infos[i].size_data
    BY DEF To
  <2>3. head.magic
    BY DEF Served, Paged
  <2> QED BY <2>1, <2>2, <2>3, ServedTable, ServedRing
<1> QED BY <1>1, ServedAlways, PTL

=============================================================================
