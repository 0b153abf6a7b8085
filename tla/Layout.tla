------------------------------- MODULE Layout -------------------------------
(***************************************************************************)
(* What lies where in the file: the server lays the rings of its           *)
(* configuration out and publishes the head of the file last; clients      *)
(* look for the head, and check what they find before they use it.         *)
(*                                                                         *)
(* src/src/server.rs (new, offsets, page_requirement), src/src/frame.rs    *)
(* (init, read_head, get_aligned_data_at_offset_val) and src/src/client.rs *)
(* (new and join of Client).  The path of the file is told before it is    *)
(* laid out, so a client may look at any time.                             *)
(*                                                                         *)
(* The file is the head, the table of RingInfo, and per ring a page for    *)
(* its head, its entries and its data, each on pages of its own.  Offsets  *)
(* and sizes are u64: what is too large wraps, or ends the server if it    *)
(* was built with overflow checks.                                         *)
(***************************************************************************)
EXTENDS Integers, Sequences

CONSTANTS
  Page,         \* PAGE_SIZE
  HeadSize,     \* bytes of a ShmHead, behind which the tail of the file is
  InfoSize,     \* bytes of a RingInfo
  Align,        \* their alignment, and that of a RingHead
  RingHeadSize, \* bytes of a RingHead
  Bits, Word,   \* 2^64: how many values a u64 has
  FileSizes,    \* sizes of the file, in bytes
  Configs,      \* configurations: sequences of RingConfig
  Client,       \* the clients that have mapped the file ...
  Bases         \* ... at one of these addresses, which are pages

U64 == 0 .. Word - 1
RingConfig == [ring_size : U64, slot_entry_size : U64, data_size : U64]

ASSUME LayoutAssumption ==
  /\ Page \in Nat \ {0} /\ Align \in Nat \ {0} /\ Page % Align = 0
  /\ \E k \in 0 .. Bits : Page = 2 ^ k
  /\ HeadSize \in Nat /\ InfoSize \in 1 .. Page
  /\ RingHeadSize \in 0 .. Page
  /\ Bits \in Nat /\ Word \in Nat \ {0} /\ Word = 2 ^ Bits
  /\ \A f \in FileSizes : f \in Nat /\ HeadSize <= f /\ 2 * (f + Page) <= Word
  /\ Configs \subseteq Seq(RingConfig)
  /\ \A b \in Bases : b \in Nat /\ b % Page = 0

VARIABLES
  file,     \* the size of the file
  config,   \* the server's configuration
  checked,  \* the server was built with overflow checks
  head,     \* shared: the ShmHead; it has its magic number or not
  infos,    \* shared: the RingInfos that were written
  server,   \* where Server::new is, and the range that is left to allocate
  client    \* what each client has, after Client::new

vars == <<file, config, checked, head, infos, server, client>>

Info == [offset_head : Nat, offset_ring : Nat, offset_data : Nat,
         size_ring : U64, size_data : U64, size_slot_entry : U64]
Range == [start : Nat, end : Nat]
ClientState == [base : Bases, open : BOOLEAN, ring_count : Nat, joined : SUBSET (Nat \ {0})]
Mapped(base) == [base |-> base, open |-> FALSE, ring_count |-> 0, joined |-> {}]

TypeOK ==
  /\ file \in FileSizes /\ config \in Configs /\ checked \in BOOLEAN
  /\ head \in [magic : BOOLEAN, ring_count : Nat, ring_offset : Nat]
  /\ infos \in Seq(Info) /\ Len(infos) <= Len(config)
  /\ server \in [pc : {"new", "offsets", "magic", "up", "failed"},
                 range : Range]
  /\ server.range.start <= server.range.end
  /\ client \in [Client -> ClientState]

(* The file is new, all zero. *)
Init ==
  /\ file \in FileSizes /\ config \in Configs /\ checked \in BOOLEAN
  /\ head = [magic |-> FALSE, ring_count |-> 0, ring_offset |-> 0]
  /\ infos = <<>>
  /\ server = [pc |-> "new", range |-> [start |-> 0, end |-> 0]]
  /\ client \in [Client -> {Mapped(b) : b \in Bases}]

-----------------------------------------------------------------------------
(* align_offset: what is missing to a multiple of the alignment. *)
Pad(n, alignment) == (0 - n) % alignment
PowerOfTwo(n) == \E k \in 0 .. Bits - 1 : n = 2 ^ k

TailSize == file - HeadSize
RingOffset == Pad(HeadSize, Align)

-----------------------------------------------------------------------------
(* The server *)

PagesDown(len) == len \div Page  \* mutant: forgets the last page
page_requirement(len) == (len \div Page) + (IF len % Page = 0 THEN 0 ELSE 1)

(* The bytes of the pages for len, as a u64. *)
Overflows(len) == page_requirement(len) * Page >= Word
PagesFor(len) == (page_requirement(len) * Page) % Word

RingsLen == page_requirement(Len(config) * InfoSize) * Page

(* allocate takes len bytes from the start of a range, if it has them. *)
HasAlways(range, len) == TRUE  \* mutant: does not look
Has(range, len) == range.start + len <= range.end
Rest(range, len) == [range EXCEPT !.start = @ + len]

Fails == server' = [server EXCEPT !.pc = "failed"]

(* The range begins behind the table and ends as many bytes later as there *)
(* are in the file with the table.                                         *)
Behind == HeadSize + RingOffset + RingsLen
Left == [start |-> Behind, end |-> TailSize - RingOffset + Behind]

Begins ==
  /\ RingOffset <= TailSize
  /\ checked => RingsLen <= TailSize - RingOffset
  /\ Has(Left, Pad(Behind, Page))

New ==
  /\ server.pc = "new"
  /\ \/ Begins /\ server' = [pc |-> "offsets", range |-> Rest(Left, Pad(Behind, Page))]
     \/ ~Begins /\ Fails
  /\ UNCHANGED <<file, config, checked, head, infos, client>>

AcceptsAnyCount(c) ==  \* mutant: does not look at the number of entries
  PowerOfTwo(c.slot_entry_size) /\ c.ring_size % c.slot_entry_size = 0
Accepts(c) ==
  /\ PowerOfTwo(c.slot_entry_size)
  /\ c.ring_size % c.slot_entry_size = 0
  /\ PowerOfTwo(c.ring_size \div c.slot_entry_size)

InfoFor(c, start) ==
  [offset_head |-> start,
   offset_ring |-> start + Page,
   offset_data |-> start + Page + PagesFor(c.ring_size),
   size_ring |-> c.ring_size, size_data |-> c.data_size,
   size_slot_entry |-> c.slot_entry_size]

(* A round of the loop in offsets, for the next ring: a page for its head, *)
(* and the pages of its entries and of its data.                           *)
Coming == config[Len(infos) + 1]
Takes(c) == Page + PagesFor(c.ring_size) + PagesFor(c.data_size)
Fits(c) ==
  /\ Accepts(c)
  /\ checked => ~Overflows(c.ring_size) /\ ~Overflows(c.data_size)
  /\ Has(server.range, Takes(c))

LayOut ==
  /\ server.pc = "offsets" /\ Len(infos) < Len(config)
  /\ \/ /\ Fits(Coming)
        /\ infos' = Append(infos, InfoFor(Coming, server.range.start))
        /\ server' = [server EXCEPT !.range = Rest(@, Takes(Coming))]
     \/ ~Fits(Coming) /\ Fails /\ UNCHANGED infos
  /\ UNCHANGED <<file, config, checked, head, client>>

(* init writes the head without its magic number, and then that. *)
LaidOutBefore == TRUE  \* mutant: before the rings
LaidOut == Len(infos) = Len(config)
WriteHead ==
  /\ server.pc = "offsets" /\ LaidOut
  /\ head' = [magic |-> FALSE, ring_count |-> Len(config), ring_offset |-> RingOffset]
  /\ server' = [server EXCEPT !.pc = "magic"]
  /\ UNCHANGED <<file, config, checked, infos, client>>

StoreMagic ==
  /\ server.pc = "magic"
  /\ head' = [head EXCEPT !.magic = TRUE]
  /\ server' = [server EXCEPT !.pc = "up"]
  /\ UNCHANGED <<file, config, checked, infos, client>>

-----------------------------------------------------------------------------
(* The clients *)

(* get_aligned_data_at_offset_val: memory of that size is in the tail.     *)
StartsInTail(base, offset, size, alignment) ==  \* mutant: forgets the size
  /\ HeadSize <= offset /\ size <= TailSize
  /\ offset - HeadSize <= TailSize
  /\ Pad(base + offset, alignment) = 0
StopsShort(base, offset, size, alignment) ==    \* mutant: off by one
  /\ HeadSize <= offset /\ size <= TailSize
  /\ offset - HeadSize < TailSize - size
  /\ Pad(base + offset, alignment) = 0
IsInTail(base, offset, size, alignment) ==
  /\ HeadSize <= offset /\ size <= TailSize
  /\ offset - HeadSize <= TailSize - size
  /\ Pad(base + offset, alignment) = 0

(* spec_as_layout: rounded up to its alignment, the size is an isize. *)
IsLayout(size, alignment) ==
  PowerOfTwo(alignment) /\ 2 * (size + Pad(size, alignment)) < Word

MayOpen(base) ==
  /\ head.magic
  /\ head.ring_offset <= TailSize
  /\ Pad(base + HeadSize + head.ring_offset, Align) = 0
  /\ head.ring_count <= (TailSize - head.ring_offset) \div InfoSize

(* Client::new, if it succeeds; it may be tried at any time. *)
Open(c) ==
  /\ ~client[c].open /\ MayOpen(client[c].base)
  /\ client' = [client EXCEPT ![c].open = TRUE, ![c].ring_count = head.ring_count]
  /\ UNCHANGED <<file, config, checked, head, infos, server>>

MayJoin(base, info) ==
  /\ IsInTail(base, info.offset_head, RingHeadSize, Align)
  /\ IsLayout(info.size_ring, info.size_slot_entry)
  /\ IsInTail(base, info.offset_ring, info.size_ring, info.size_slot_entry)
  /\ IsLayout(info.size_data, 1)
  /\ IsInTail(base, info.offset_data, info.size_data, 1)

(* join, but for the slot (see SlotLifecycle); a RingInfo that was not     *)
(* written has no version.                                                 *)
Join(c, i) ==
  /\ client[c].open /\ i \in 1 .. client[c].ring_count /\ i \in DOMAIN infos
  /\ MayJoin(client[c].base, infos[i])
  /\ client' = [client EXCEPT ![c].joined = @ \cup {i}]
  /\ UNCHANGED <<file, config, checked, head, infos, server>>

Next ==
  \/ New \/ LayOut \/ WriteHead \/ StoreMagic
  \/ \E c \in Client : Open(c) \/ \E i \in 1 .. Len(config) : Join(c, i)

Spec == Init /\ [][Next]_vars

-----------------------------------------------------------------------------
Joined == UNION {client[c].joined : c \in Client}

(* The parts of a ring: where one begins, and where it ends. *)
Part == {"head", "ring", "data"}
From(i, part) == CASE part = "head" -> infos[i].offset_head
                   [] part = "ring" -> infos[i].offset_ring
                   [] part = "data" -> infos[i].offset_data
To(i, part) == CASE part = "head" -> infos[i].offset_head + RingHeadSize
                 [] part = "ring" -> infos[i].offset_ring + infos[i].size_ring
                 [] part = "data" -> infos[i].offset_data + infos[i].size_data

(* Whoever finds the magic number finds everything that was to be written  *)
(* before it, whenever it looked ("To ensure and _ordering_ relation, we   *)
(* write this last", init): the table is complete and does not change any  *)
(* more.                                                                   *)
OpenedComplete ==
  \A c \in Client :
    client[c].open => server.pc = "up" /\ client[c].ring_count = Len(infos)

(* A client that has joined a ring has all of it in the file, even if the  *)
(* server let the ring begin or end behind the file.                       *)
JoinedInside == \A i \in Joined, part \in Part : To(i, part) <= file

(* What clients use of their rings does not overlap, nor does it lie in    *)
(* the table: neither in another ring nor in another part of the same one, *)
(* even if the server's arithmetic wrapped for some of the rings.          *)
JoinedApart ==
  \A i \in Joined, part \in Part :
    /\ HeadSize + RingOffset + Len(infos) * InfoSize <= From(i, part)
    /\ \A j \in Joined, other \in Part :
         <<i, part>> # <<j, other>> =>
           To(i, part) <= From(j, other) \/ To(j, other) <= From(i, part)

(* What the server brings up is accepted by every client, wherever that    *)
(* has mapped the file: the table, and each ring that lies in the file and *)
(* whose entries are no larger than a page.                                *)
ServedIsUsable ==
  server.pc = "up" =>
    \A c \in Client :
      /\ MayOpen(client[c].base)
      /\ \A i \in DOMAIN infos :
           To(i, "data") <= file /\ infos[i].size_slot_entry <= Page
           => MayJoin(client[c].base, infos[i])

(* What Producer::new and Consumer::new assert of a ring, and mask indices *)
(* with, is true of every ring a client may have joined.                   *)
AssertionsHold ==
  \A i \in Joined :
    /\ PowerOfTwo(infos[i].size_ring) /\ PowerOfTwo(infos[i].size_slot_entry)
    /\ infos[i].size_slot_entry <= infos[i].size_ring

=============================================================================
