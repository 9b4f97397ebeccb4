------------------------------ MODULE Huffman ------------------------------
(***************************************************************************)
(* The adaptive Huffman code of connect packets, and of the trees that     *)
(* Q3Huffman trains for everything else.  Both ends build the same tree    *)
(* from what has gone by: compress sends a symbol by the path to its leaf, *)
(* or by the path to NYT ("not yet transmitted") and its own bits, and     *)
(* then counts it; decompress follows the bits and counts what it found.   *)
(*                                                                         *)
(* Besides the tree the nodes form a list, lightest first.  Nodes of one   *)
(* weight are a block, and share a cell that points to the last of them,   *)
(* with which a node that gains weight changes places.  Cells come from a  *)
(* pool and go to a free list, where a cell holds the next one.            *)
(***************************************************************************)
EXTENDS Integers, Sequences, FiniteSets, FiniteSetsExt, SequencesExt

CONSTANTS SymbolBits,   \* bits of a symbol, 8 in the code
          Symbols,      \* those that occur
          ByteValues,   \* values of a byte of the size field, 256 in the code
          MaxLength     \* bound: symbols of a message

NYT           == 2^SymbolBits
INTERNAL_NODE == NYT + 1

NULL  == 0
Nodes == 1 .. 2 * Cardinality(Symbols) + 1
Cells == Nodes

VARIABLES
  compressor,    \* huff_t of compress
  decompressor,  \* huff_t of decompress
  input,         \* symbols compressed so far
  bits,          \* the bits of the stream after the size
  size,          \* the two bytes in front of them; << >> while compressing
  bloc,          \* bits read
  output         \* symbols decompressed so far

vars == <<compressor, decompressor, input, bits, size, bloc, output>>

-----------------------------------------------------------------------------
(* The tree.                                                               *)

NewNode == [left |-> NULL, right |-> NULL, parent |-> NULL, next |-> NULL,
            prev |-> NULL, head |-> NULL, weight |-> 0, symbol |-> 0]

\* The first node is NYT and stays the first of the list.
lhead == 1

NewHuff ==
  [blocNode |-> 1, blocPtrs |-> 0, tree |-> lhead, freelist |-> NULL,
   loc  |-> [ch \in Symbols \cup {NYT} |-> IF ch = NYT THEN lhead ELSE NULL],
   node |-> [n \in Nodes |-> IF n = lhead THEN [NewNode EXCEPT !.symbol = NYT] ELSE NewNode],
   cell |-> [p \in Cells |-> NULL]]

\* A cell, and the pool without it.
get_ppnode(h) ==
  IF h.freelist = NULL THEN [cell |-> h.blocPtrs + 1,
                             huff |-> [h EXCEPT !.blocPtrs = @ + 1]]
  ELSE [cell |-> h.freelist, huff |-> [h EXCEPT !.freelist = h.cell[h.freelist]]]

\* Mutant: the cell is lost to the pool.
FreeNothing(h, p) == [h EXCEPT !.cell[p] = NULL]

free_ppnode(h, p) == [h EXCEPT !.cell[p] = h.freelist, !.freelist = p]

\* Another node takes the place of n below parent; NULL is above the root.
ReplaceChild(h, parent, n, by) ==
  IF parent = NULL THEN [h EXCEPT !.tree = by]
  ELSE IF h.node[parent].left = n THEN [h EXCEPT !.node[parent].left = by]
  ELSE [h EXCEPT !.node[parent].right = by]

\* Siblings stay where they are: the second replacement undoes the first.
swap(h, node1, node2) ==
  LET par1 == h.node[node1].parent
      par2 == h.node[node2].parent
  IN [ReplaceChild(ReplaceChild(h, par1, node1, node2), par2, node2, node1)
        EXCEPT !.node[node1].parent = par2, !.node[node2].parent = par1]

\* The two change places in the list, neighbours or not.
swaplist(h, node1, node2) ==
  LET Other(n) == CASE n = node1 -> node2 [] n = node2 -> node1 [] OTHER -> n
      Listed(n) == [h.node[n] EXCEPT !.next = Other(h.node[Other(n)].next),
                                     !.prev = Other(h.node[Other(n)].prev)]
  IN [h EXCEPT !.node = [n \in Nodes |-> Listed(n)]]

Weighs(h, n, w) == n # NULL /\ h.node[n].weight = w

\* Mutant: the node gains weight where it is.
GoNowhere(h, node) == h

\* The node changes places with the last of its block, unless that is its parent.
GoLast(h, node) ==
  IF Weighs(h, h.node[node].next, h.node[node].weight)
  THEN LET lnode == h.cell[h.node[node].head]
       IN swaplist(IF lnode # h.node[node].parent THEN swap(h, lnode, node) ELSE h,
                   lnode, node)
  ELSE h

LeaveBlock(h, node) ==
  LET this == h.node[node]
  IN IF Weighs(h, this.prev, this.weight) THEN [h EXCEPT !.cell[this.head] = this.prev]
     ELSE free_ppnode(h, this.head)

\* The node is the first of the block it joins, or the only one.
JoinBlock(h, node) ==
  LET this == h.node[node]
      got  == get_ppnode(h)
  IN IF Weighs(h, this.next, this.weight)
     THEN [h EXCEPT !.node[node].head = h.node[this.next].head]
     ELSE [got.huff EXCEPT !.node[node].head = got.cell, !.cell[got.cell] = node]

\* Mutant: a node that changed places with its parent stays there.
BeforeParent(h, node) == h

\* A node that changed places with its parent in the list is put after it again.
AfterParent(h, node) ==
  LET this == h.node[node]
      back == swaplist(h, node, this.parent)
  IN IF this.prev # this.parent THEN h
     ELSE IF h.cell[this.head] = node THEN [back EXCEPT !.cell[this.head] = this.parent]
     ELSE back

RECURSIVE increment(_, _)
increment(h, node) ==
  IF node = NULL THEN h
  ELSE LET left  == LeaveBlock(GoLast(h, node), node)
           grown == JoinBlock([left EXCEPT !.node[node].weight = @ + 1], node)
       IN IF grown.node[node].parent = NULL THEN grown
          ELSE AfterParent(increment(grown, grown.node[node].parent), node)

\* A symbol seen for the first time: NYT's place is taken by a node with NYT to
\* the left and the symbol to the right, both new ones next to NYT in the list.
AddSymbol(h, ch) ==
  LET tnode  == h.blocNode + 1
      tnode2 == h.blocNode + 2
      next   == h.node[lhead].next
      above  == h.node[lhead].parent
      placed == ReplaceChild([h EXCEPT !.blocNode = @ + 2, !.loc[ch] = tnode], above, lhead, tnode2)
      got    == IF Weighs(h, next, 1) THEN [cell |-> h.node[next].head, huff |-> placed]
                ELSE LET new == get_ppnode(placed)
                     IN [new EXCEPT !.huff.cell[new.cell] = tnode2]
      linked == IF next = NULL THEN got.huff ELSE [got.huff EXCEPT !.node[next].prev = tnode2]
      inner  == [NewNode EXCEPT !.symbol = INTERNAL_NODE, !.weight = 1, !.head = got.cell,
                                !.left = lhead, !.right = tnode, !.parent = above,
                                !.prev = tnode, !.next = next]
      leaf   == [NewNode EXCEPT !.symbol = ch, !.weight = 1, !.head = got.cell,
                                !.parent = tnode2, !.prev = lhead, !.next = tnode2]
  IN increment([linked EXCEPT !.node[tnode2] = inner, !.node[tnode] = leaf,
                              !.node[lhead].next = tnode, !.node[lhead].parent = tnode2], above)

\* Mutant: a symbol that was there before is not counted.
CountOnce(h, ch) == IF h.loc[ch] = NULL THEN AddSymbol(h, ch) ELSE h

Huff_addRef(h, ch) == IF h.loc[ch] = NULL THEN AddSymbol(h, ch) ELSE increment(h, h.loc[ch])

-----------------------------------------------------------------------------
(* The stream.                                                             *)

\* The path to a node, from the root.
RECURSIVE send(_, _)
send(h, node) ==
  LET parent == h.node[node].parent
  IN IF parent = NULL THEN << >>
     ELSE Append(send(h, parent), IF h.node[parent].right = node THEN 1 ELSE 0)

\* The symbol's own bits, the highest first.
OwnBits(ch) == [i \in 1 .. SymbolBits |-> (ch \div 2^(SymbolBits - i)) % 2]

Huff_transmit(h, ch) ==
  IF h.loc[ch] = NULL THEN send(h, h.loc[NYT]) \o OwnBits(ch) ELSE send(h, h.loc[ch])

getBit(at) == IF at < Len(bits) THEN bits[at + 1] ELSE 0

\* The symbol at the end of the path that starts at a bit, and where it ends.
RECURSIVE Huff_Receive(_, _, _)
Huff_Receive(h, node, at) ==
  IF h.node[node].symbol # INTERNAL_NODE THEN [ch |-> h.node[node].symbol, bloc |-> at]
  ELSE Huff_Receive(h, IF getBit(at) = 1 THEN h.node[node].right ELSE h.node[node].left, at + 1)

ReadOwnBits(at) == FoldLeft(LAMBDA ch, i : 2 * ch + getBit(at + i - 1), 0,
                            [i \in 1 .. SymbolBits |-> i])

\* Mutant: the symbol's own bits are not skipped.
ReadAndStay(h, at) ==
  LET found == Huff_Receive(h, h.tree, at)
  IN IF found.ch = NYT THEN [ch |-> ReadOwnBits(found.bloc), bloc |-> found.bloc] ELSE found

ReadSymbol(h, at) ==
  LET found == Huff_Receive(h, h.tree, at)
  IN IF found.ch = NYT THEN [ch |-> ReadOwnBits(found.bloc), bloc |-> found.bloc + SymbolBits]
     ELSE found

\* A char is signed where this is built; a negative sum is a size no string can have.
Char(byte) == IF byte >= ByteValues \div 2 THEN byte - ByteValues ELSE byte

getDecompressedSize == Char(size[1]) * ByteValues + Char(size[2])

-----------------------------------------------------------------------------
Init ==
  /\ compressor = NewHuff /\ decompressor = NewHuff
  /\ input = << >> /\ bits = << >> /\ size = << >>
  /\ bloc = 0 /\ output = << >>

\* One round of compress's loop.
Transmit(ch) ==
  /\ size = << >>
  /\ Len(input) < MaxLength
  /\ bits' = bits \o Huff_transmit(compressor, ch)
  /\ compressor' = Huff_addRef(compressor, ch)
  /\ input' = Append(input, ch)
  /\ UNCHANGED <<decompressor, size, bloc, output>>

\* The size, which the code writes first; nothing is written for no input.
WriteSize ==
  /\ size = << >> /\ input # << >>
  /\ size' = <<(Len(input) \div ByteValues) % ByteValues, Len(input) % ByteValues>>
  /\ UNCHANGED <<compressor, decompressor, input, bits, bloc, output>>

\* One round of decompress's loop.
Receive ==
  /\ size # << >>
  /\ Len(output) < getDecompressedSize
  /\ LET read == ReadSymbol(decompressor, bloc)
     IN /\ output' = Append(output, read.ch)
        /\ decompressor' = Huff_addRef(decompressor, read.ch)
        /\ bloc' = read.bloc
  /\ UNCHANGED <<compressor, input, bits, size>>

Next ==
  \/ \E ch \in Symbols : Transmit(ch)
  \/ WriteSize
  \/ Receive

Spec == Init /\ [][Next]_vars

-----------------------------------------------------------------------------
(* Properties.                                                             *)

HuffType ==
  [blocNode : Nodes, blocPtrs : Cells \cup {0}, tree : Nodes, freelist : Cells \cup {NULL},
   loc : [Symbols \cup {NYT} -> Nodes \cup {NULL}],
   node : [Nodes -> [left : Nodes \cup {NULL}, right : Nodes \cup {NULL},
                     parent : Nodes \cup {NULL}, next : Nodes \cup {NULL},
                     prev : Nodes \cup {NULL}, head : Cells \cup {NULL},
                     weight : 0 .. MaxLength, symbol : 0 .. INTERNAL_NODE]],
   cell : [Cells -> Nodes \cup {NULL}]]

\* Every variable keeps its type: in particular the nodes and the cells suffice.
TypeOK ==
  /\ compressor \in HuffType /\ decompressor \in HuffType
  /\ input \in Seq(Symbols) /\ Len(input) <= MaxLength
  /\ output \in Seq(Symbols)
  /\ bits \in Seq({0, 1})
  /\ bloc \in 0 .. Len(bits)

Used(h) == 1 .. h.blocNode

\* The nodes from n to the end of the list.
RECURSIVE ListFrom(_, _)
ListFrom(h, n) == IF n = NULL THEN << >> ELSE <<n>> \o ListFrom(h, h.node[n].next)

\* What was compressed is what comes out: however the two trees were turned by
\* the symbols before, both ends agree on each (Huffman.cpp:221-269, 297-345).
RoundTrip ==
  /\ IsPrefix(output, input)
  /\ size # << >> /\ Len(output) >= getDecompressedSize => output = input /\ bloc = Len(bits)

\* The sibling property that makes the code a Huffman code: along the list no node
\* is lighter than the one before, and siblings are neighbours, the parent behind
\* them (Huffman.cpp:38-98, 107-144).
SiblingsInOrder ==
  LET list == ListFrom(compressor, lhead)
      Rank(n) == CHOOSE k \in DOMAIN list : list[k] = n
      node == compressor.node
  IN /\ Len(list) = compressor.blocNode /\ ToSet(list) = Used(compressor)
     /\ \A k \in 1 .. Len(list) - 1 : /\ node[list[k]].weight <= node[list[k + 1]].weight
                                      /\ node[list[k + 1]].prev = list[k]
     /\ \A n \in Used(compressor) \ {compressor.tree} : Rank(n) < Rank(node[n].parent)
     /\ \A n \in Used(compressor) : node[n].symbol = INTERNAL_NODE =>
          Rank(node[n].left) - Rank(node[n].right) \in {-1, 1}

\* Each block has a cell of its own that points to the last of the block, and every
\* cell taken from the pool is in use or free: the pool never runs dry, though cells
\* are handed back and forth (Huffman.cpp:25-36, 100-104, 122-134).
BlocksAreLed ==
  LET node   == compressor.node
      Block(n) == {m \in Used(compressor) : node[m].weight = node[n].weight}
      listed == Used(compressor) \ {lhead}
      RECURSIVE Free(_)
      Free(p) == IF p = NULL THEN {} ELSE {p} \cup Free(compressor.cell[p])
      heads  == {node[n].head : n \in listed}
  IN /\ \A n, m \in listed : node[n].head = node[m].head <=> node[n].weight = node[m].weight
     /\ \A n \in listed : LET last == compressor.cell[node[n].head]
                          IN last \in Block(n) /\ node[last].next \notin Block(n)
     /\ heads \cap Free(compressor.freelist) = {}
     /\ heads \cup Free(compressor.freelist) = 1 .. compressor.blocPtrs

\* The length of an optimal code for these weights: the sum of what is merged when
\* the two lightest are merged until one is left.
RECURSIVE OptimalLength(_)
OptimalLength(weights) ==
  IF Len(weights) <= 1 THEN 0
  ELSE LET sorted == SortSeq(weights, LAMBDA a, b : a < b)
           merged == sorted[1] + sorted[2]
       IN merged + OptimalLength(<<merged>> \o SubSeq(sorted, 3, Len(sorted)))

\* The tree is optimal for what has been counted: with these weights no code
\* is shorter, and the weights are the counts (Huffman.cpp:107-214).
CodesAreShortest ==
  LET Count(ch) == Cardinality({k \in DOMAIN input : input[k] = ch})
      seen == SetToSeq(ToSet(input))
      Length(ch) == Count(ch) * Len(send(compressor, compressor.loc[ch]))
  IN /\ \A ch \in ToSet(input) : compressor.node[compressor.loc[ch]].weight = Count(ch)
     /\ MapThenSumSet(Length, ToSet(input))
          = OptimalLength(<<0>> \o [k \in DOMAIN seen |-> Count(seen[k])])
=============================================================================
