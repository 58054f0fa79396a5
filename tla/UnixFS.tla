------------------------------- MODULE UnixFS -------------------------------
(***************************************************************************)
(* Files as trees of blocks.  FileSystemApi.AddAsync cuts a stream into    *)
(* chunks (SizeChunker), stores each as a leaf and bundles the nodes,      *)
(* level by level, until one is left.  ReadFileAsync walks the tree with   *)
(* nested ChunkedStreams, each of which keeps the content of one child,    *)
(* and SlicedStream cuts a part out.  Adds, reads and the removal of       *)
(* garbage interleave.  A block is named by its content, so here its id is *)
(* the block itself.  Block.PutAsync with its pin and RemoveGarbageAsync   *)
(* are one step each: module Repository takes them apart.                  *)
(***************************************************************************)
EXTENDS Naturals, FiniteSets, SequencesExt

CONSTANTS
  Writers, Readers,
  Files,       \* what is added: sequences of bytes
  ChunkSize,   \* AddFileOptions.ChunkSize
  LinksPerBlock, \* DefaultLinksPerBlock
  Slices,      \* what is read: pairs of an offset and a count
  Buffers,     \* how much a caller reads at a time
  None,
  MaxAdds      \* bound: calls of AddAsync in a behaviour

Zero == 0      \* the byte a new array is filled with

ASSUME UnixFSAssumption ==
  /\ ChunkSize \in Nat \ {0} /\ LinksPerBlock \in Nat \ {0, 1}
  /\ \A f \in Files : f \in Seq(Nat \ {Zero})
  /\ Slices \subseteq Nat \X Nat /\ Buffers \subseteq Nat \ {0}
  /\ MaxAdds \in Nat

VARIABLES
  blocks,   \* the blocks that are stored
  pins,     \* the blocks that are pinned
  adds,     \* the AddAsync of each writer
  reads,    \* the stream of each reader
  calls,    \* the calls of AddAsync so far
  added,    \* history: the files added, with their roots and blocks
  unpinned  \* history: blocks that were put without a pin

vars == <<blocks, pins, adds, reads, calls, added, unpinned>>

-----------------------------------------------------------------------------
(* Blocks                                                                  *)

Leaf(data, raw) == [data |-> data, raw |-> raw, sizes |-> <<>>, links |-> <<>>]
IsLeaf(b) == b.sizes = <<>>

(* Where the child after the first i starts: position += BlockSizes[i].    *)
Before(sizes) ==
  LET start[i \in 0 .. Len(sizes)] == IF i = 0 THEN 0 ELSE start[i - 1] + sizes[i]
  IN start

(* DataMessage.FileSize, or the length of the data.                        *)
Size(b) == IF IsLeaf(b) THEN Len(b.data) ELSE Before(b.sizes)[Len(b.sizes)]

Sizes(nodes) == [i \in DOMAIN nodes |-> Size(nodes[i])]

BlockSizes(nodes) == Sizes(nodes)

Bundle(nodes) == [data |-> <<>>, raw |-> FALSE, sizes |-> BlockSizes(nodes), links |-> nodes]

(* BlockInfo.Position                                                      *)
Position(b, i) == Before(b.sizes)[i - 1]

(* The last of the children that start at the position or before.          *)
Need(b, pos) ==
  CHOOSE i \in DOMAIN b.links :
    /\ Position(b, i) <= pos
    /\ \A j \in i + 1 .. Len(b.links) : Position(b, j) > pos

-----------------------------------------------------------------------------
Options == [raw : BOOLEAN, pin : BOOLEAN, onlyHash : BOOLEAN]

NoAdd == [ pc |-> "idle", file |-> <<>>, options |-> None, read |-> 0, length |-> 0,
           nodes |-> <<>>, tree |-> <<>>, next |-> 0,
           made |-> {} ]     \* history: the blocks this call has put or named

NoStream == [ pc |-> "closed", file |-> <<>>, slice |-> <<0, 0>>, end |-> 0, want |-> 0,
              stack |-> <<>>, got |-> <<>>, broken |-> FALSE ]

AddedBlocks == UNION {a.made : a \in added}

TypeOK ==
  /\ pins \subseteq blocks
  /\ \A w \in Writers : LET a == adds[w] IN
       /\ a.pc \in {"idle", "chunk", "tree"}
       /\ a.length <= ChunkSize /\ a.length <= a.read /\ a.read <= Len(a.file)
       /\ a.pc = "tree" => a.nodes # <<>> /\ a.next <= Len(a.nodes)
  /\ \A r \in Readers : LET s == reads[r] IN
       /\ s.pc \in {"closed", "open", "reading", "ended"}
       /\ s.pc = "closed" <=> s.stack = <<>>
       /\ s.pc \in {"open", "ended"} => Len(s.stack) = 1
       /\ \A i \in DOMAIN s.stack : s.stack[i].node \in AddedBlocks
  /\ added \subseteq [file : Files, options : Options, root : AddedBlocks, made : SUBSET AddedBlocks]

Init ==
  /\ blocks = {} /\ pins = {}
  /\ adds = [w \in Writers |-> NoAdd]
  /\ reads = [r \in Readers |-> NoStream]
  /\ calls = 0
  /\ added = {} /\ unpinned = {}

ReadersUnchanged == UNCHANGED <<reads>>
WritersUnchanged == UNCHANGED <<adds, calls, added>>
StoreUnchanged == UNCHANGED <<blocks, pins, unpinned>>

-----------------------------------------------------------------------------
(* FileSystemApi.AddAsync                                                  *)

Add(w) ==
  /\ adds[w].pc = "idle" /\ calls < MaxAdds
  /\ calls' = calls + 1
  /\ \E f \in Files, o \in Options :
       adds' = [adds EXCEPT ![w] = [NoAdd EXCEPT !.pc = "chunk", !.file = f, !.options = o]]
  /\ UNCHANGED added
  /\ StoreUnchanged /\ ReadersUnchanged

(* Mutant: a read that returns less than was asked for ends the chunk.     *)
Short(a) == a.length > 0
Full(a) == a.length = ChunkSize

(* The stream returns some of what is left.                                *)
ReadSource(w) ==
  LET a == adds[w] IN
  /\ a.pc = "chunk" /\ ~Full(a)
  /\ \E n \in 1 .. ChunkSize - a.length :
       /\ a.read + n <= Len(a.file)
       /\ adds' = [adds EXCEPT ![w].read = @ + n, ![w].length = @ + n]
  /\ UNCHANGED <<calls, added>>
  /\ StoreUnchanged /\ ReadersUnchanged

AtEnd(a) == a.read = Len(a.file)

(* Mutant: a leaf is stored without its pin.                               *)
InnerPinned(b, o) == IF o.pin /\ ~IsLeaf(b) THEN pins \cup {b} ELSE pins \ {b}
Pinned(b, o) == IF o.pin THEN pins \cup {b} ELSE pins \ {b}

(* Block.PutAsync: it pins the block or takes a pin away; HashOnlyBlock-   *)
(* Service only names it.                                                  *)
Put(b, o) ==
  IF o.onlyHash THEN StoreUnchanged
  ELSE /\ blocks' = blocks \cup {b}
       /\ pins' = Pinned(b, o)
       /\ unpinned' = IF o.pin THEN unpinned ELSE unpinned \cup {b}

(* A chunk is full, or the stream has ended.  An empty chunk is stored     *)
(* only for an empty file.                                                 *)
PutLeaf(w) ==
  LET a == adds[w]
      chunk == Leaf(SubSeq(a.file, a.read - a.length + 1, a.read), a.options.raw)
  IN /\ a.pc = "chunk" /\ (Full(a) \/ AtEnd(a))
     /\ a.length > 0 \/ a.nodes = <<>>
     /\ Put(chunk, a.options)
     /\ adds' = [adds EXCEPT ![w].nodes = Append(@, chunk), ![w].length = 0,
                             ![w].made = @ \cup {chunk},
                             ![w].pc = IF Full(a) THEN "chunk" ELSE "tree"]
     /\ UNCHANGED <<calls, added>>
     /\ ReadersUnchanged

SourceEnds(w) ==
  LET a == adds[w] IN
  /\ a.pc = "chunk" /\ AtEnd(a) /\ a.length = 0 /\ a.nodes # <<>>
  /\ adds' = [adds EXCEPT ![w].pc = "tree"]
  /\ UNCHANGED <<calls, added>>
  /\ StoreUnchanged /\ ReadersUnchanged

(* BuildTreeAsync: the next LinksPerBlock nodes become the children of a   *)
(* node of the next level.                                                 *)
BuildTreeNode(w) ==
  LET a == adds[w]
      last == IF a.next + LinksPerBlock < Len(a.nodes) THEN a.next + LinksPerBlock
              ELSE Len(a.nodes)
      node == Bundle(SubSeq(a.nodes, a.next + 1, last))
  IN /\ a.pc = "tree" /\ Len(a.nodes) > 1 /\ a.next < Len(a.nodes)
     /\ Put(node, a.options)
     /\ adds' = [adds EXCEPT ![w].tree = Append(@, node), ![w].next = last,
                             ![w].made = @ \cup {node}]
     /\ UNCHANGED <<calls, added>>
     /\ ReadersUnchanged

LevelEnds(w) ==
  LET a == adds[w] IN
  /\ a.pc = "tree" /\ Len(a.nodes) > 1 /\ a.next = Len(a.nodes)
  /\ adds' = [adds EXCEPT ![w].nodes = a.tree, ![w].tree = <<>>, ![w].next = 0]
  /\ UNCHANGED <<calls, added>>
  /\ StoreUnchanged /\ ReadersUnchanged

Return(w) ==
  LET a == adds[w] IN
  /\ a.pc = "tree" /\ Len(a.nodes) = 1
  /\ added' = added \cup {[ file |-> a.file, options |-> a.options, root |-> a.nodes[1],
                          made |-> a.made ]}
  /\ adds' = [adds EXCEPT ![w] = NoAdd]
  /\ UNCHANGED calls
  /\ StoreUnchanged /\ ReadersUnchanged

(* The source throws or the call is cancelled: the blocks stay.            *)
AddFails(w) ==
  /\ adds[w].pc # "idle"
  /\ adds' = [adds EXCEPT ![w] = NoAdd]
  /\ UNCHANGED <<calls, added>>
  /\ StoreUnchanged /\ ReadersUnchanged

(* RemoveGarbageAsync removes the blocks that are not pinned.              *)
RemoveGarbage ==
  /\ blocks' = blocks \cap pins
  /\ UNCHANGED <<pins, unpinned>>
  /\ WritersUnchanged
  /\ ReadersUnchanged

-----------------------------------------------------------------------------
(* Reading.  A stream in the stack is read to fill the content of one      *)
(* child of the stream below it; the caller reads the first.               *)

Stream(b) == [ node |-> b, pos |-> 0, cur |-> 0,
               data |-> <<>>,     \* currentData
               filled |-> 0 ]     \* how much of it has been read

Smaller(m, n) == IF m < n THEN m ELSE n

(* Mutant: the end of a slice is the count.                                *)
FromStart(slice, size) == IF slice[2] < 1 THEN size ELSE Smaller(size, slice[2])
LogicalEnd(slice, size) ==
  IF slice[2] < 1 THEN size ELSE Smaller(size, slice[1] + slice[2])

(* Streams are opened at files whose root is there.                        *)
Open(r) ==
  /\ reads[r].pc = "closed"
  /\ \E a \in {x \in added : x.root \in blocks}, s \in Slices :
       reads' = [reads EXCEPT ![r] =
         [NoStream EXCEPT !.pc = "open", !.file = a.file, !.slice = s,
                          !.end = LogicalEnd(s, Size(a.root)),
                          !.stack = <<[Stream(a.root) EXCEPT !.pos = s[1]]>>]]
  /\ WritersUnchanged
  /\ StoreUnchanged

(* SlicedStream.Read                                                       *)
Read(r) ==
  LET s == reads[r]
      pos == s.stack[1].pos
  IN /\ s.pc = "open"
     /\ \/ /\ pos >= s.end
           /\ reads' = [reads EXCEPT ![r].pc = "ended"]
        \/ /\ pos < s.end
           /\ \E n \in Buffers :
                reads' = [reads EXCEPT ![r].pc = "reading", ![r].want = Smaller(n, s.end - pos)]
     /\ WritersUnchanged
     /\ StoreUnchanged

Wanted(s) ==
  LET k == Len(s.stack) IN
  IF k = 1 THEN s.want ELSE Len(s.stack[k - 1].data) - s.stack[k - 1].filled

(* The bytes from position pos on are copied to whoever reads the stream   *)
(* at the top; a stream that has been read whole is done with.             *)
Deliver(s, data, pos) ==
  LET k == Len(s.stack)
      top == s.stack[k]
      n == Smaller(Wanted(s), Len(data) - pos)
      bytes == SubSeq(data, pos + 1, pos + n)
      moved == [top EXCEPT !.pos = @ + n]
      under == s.stack[k - 1]
      filled == [under EXCEPT
        !.filled = @ + n,
        !.data = [i \in DOMAIN @ |-> IF i \in under.filled + 1 .. under.filled + n
                                     THEN bytes[i - under.filled] ELSE @[i]]]
      rest == SubSeq(s.stack, 1, k - 2)
  IN IF k = 1
     THEN [s EXCEPT !.pc = IF n = 0 THEN "ended" ELSE "open", !.got = @ \o bytes, !.stack = <<moved>>]
     ELSE IF filled.filled = Len(filled.data)
     THEN [s EXCEPT !.stack = rest \o <<filled>>]
     ELSE [s EXCEPT !.stack = rest \o <<filled, moved>>]

Top(s) == s.stack[Len(s.stack)]

(* MemoryStream.ReadAsync, and ChunkedStream.ReadAsync when the child is   *)
(* the current one.                                                        *)
Copy(r) ==
  LET s == reads[r]
      top == Top(s)
  IN /\ s.pc = "reading"
     /\ \/ /\ IsLeaf(top.node)
           /\ reads' = [reads EXCEPT ![r] = Deliver(s, top.node.data, top.pos)]
        \/ /\ ~IsLeaf(top.node) /\ top.pos < Size(top.node)
           /\ Need(top.node, top.pos) = top.cur
           /\ reads' = [reads EXCEPT ![r] =
                Deliver(s, top.data, top.pos - Position(top.node, top.cur))]
     /\ WritersUnchanged
     /\ StoreUnchanged

Fetching(r) ==
  LET top == Top(reads[r]) IN
  /\ reads[r].pc = "reading"
  /\ ~IsLeaf(top.node) /\ top.pos < Size(top.node)
  /\ Need(top.node, top.pos) # top.cur

NewArray(size) == [i \in 1 .. size |-> Zero]

(* GetBlockAsync has opened the child: it is the current one before any of *)
(* it has been read.                                                       *)
Fetch(r) ==
  LET s == reads[r]
      k == Len(s.stack)
      need == Need(Top(s).node, Top(s).pos)
      child == Top(s).node.links[need]
  IN /\ Fetching(r) /\ child \in blocks
     /\ reads' = [reads EXCEPT ![r].stack =
          SubSeq(s.stack, 1, k - 1)
          \o << [Top(s) EXCEPT !.cur = need, !.data = NewArray(Size(child)), !.filled = 0],
                Stream(child) >>]
     /\ WritersUnchanged
     /\ StoreUnchanged

(* Mutant: the streams of the children stay.                               *)
Left(s) == s.stack
Unwound(s) == <<s.stack[1]>>

(* Block.GetAsync throws; the caller may go on with the stream.            *)
FetchFails(r) ==
  LET s == reads[r] IN
  /\ Fetching(r)
  /\ reads' = [reads EXCEPT ![r].pc = "open", ![r].stack = Unwound(s),
                            ![r].broken = @ \/ Len(s.stack) > 1]
  /\ WritersUnchanged
  /\ StoreUnchanged

Dispose(r) ==
  /\ reads[r].pc \in {"open", "ended"}
  /\ reads' = [reads EXCEPT ![r] = NoStream]
  /\ WritersUnchanged
  /\ StoreUnchanged

Next ==
  \/ \E w \in Writers :
       \/ Add(w) \/ ReadSource(w) \/ PutLeaf(w) \/ SourceEnds(w)
       \/ BuildTreeNode(w) \/ LevelEnds(w) \/ Return(w) \/ AddFails(w)
  \/ RemoveGarbage
  \/ \E r \in Readers :
       \/ Open(r) \/ Read(r) \/ Copy(r) \/ Fetch(r) \/ FetchFails(r) \/ Dispose(r)

Spec == Init /\ [][Next]_vars

-----------------------------------------------------------------------------
(* Properties                                                              *)

(* From the offset on, count bytes, or all of them if the count is 0.      *)
Slice(file, offset, count) ==
  SubSeq(file, offset + 1,
         IF count = 0 THEN Len(file) ELSE Smaller(Len(file), offset + count))

(* A stream is as long as the file, what has been read of it is the start  *)
(* of the slice that was asked for, and all of it when the stream says it  *)
(* has ended: whatever tree the file became, how much is read at a time    *)
(* and how often a block could not be had (ChunkedStream, SlicedStream).   *)
(* A read that fails below the first level leaves the stream with zeros in *)
(* place of a child and is excepted.                                       *)
ReadsTheFile ==
  \A r \in Readers :
    LET s == reads[r]
        slice == Slice(s.file, s.slice[1], s.slice[2])
    IN s.pc # "closed" /\ ~s.broken =>
         /\ Size(s.stack[1].node) = Len(s.file)
         /\ IsPrefix(s.got, slice)
         /\ s.pc = "ended" => s.got = slice

(* The same bytes have the same root, however the source was read and      *)
(* whether the blocks are stored or only named; other bytes have another   *)
(* (SizeChunker: "Get an entire chunk.").                                  *)
SameBytesSameRoot ==
  \A a, b \in added :
    a.options.raw = b.options.raw => (a.root = b.root <=> a.file = b.file)

Closed(bs) == \A b \in bs : \A i \in DOMAIN b.links : b.links[i] \in bs

(* A file that was added with a pin keeps all its blocks, the root and     *)
(* whatever it leads to, but those that somebody else put without one:     *)
(* that takes the pin away (BlockApi.PutAsync pins each block by itself).  *)
PinnedFileStays ==
  \A a \in added : a.options.pin /\ ~a.options.onlyHash =>
    /\ a.root \in a.made /\ Closed(a.made)
    /\ a.made \ unpinned \subseteq blocks

=============================================================================
