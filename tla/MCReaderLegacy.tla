--------------------------- MODULE MCReaderLegacy ---------------------------
(***************************************************************************)
(* Instances of the reader of cell 1 with both flows.  The table of cells  *)
(* is that of GetCellInfoFromLDS: cell 2 stores and cell 3 transports, so  *)
(* that both are always in it; a step is owned as the new flow says and    *)
(* offered by the cell the old one finds for its type.                     *)
(***************************************************************************)
EXTENDS ReaderLegacy

TwoTags == {1, 2}
TableOfCells == {1, 2, 3}
StorageAndTransport == {2, 3}
OfferedBy == <<{1, 3, 4}, {2, 5, 6}, {}>>
Numbers == {7, 8}   \* no numbers of cells
RecipeBook == <<<<1, 2>>, <<5>>>>
StorageSteps == <<5>>

\* What the two products come with: no recipe, or one of two steps that this
\* cell offers or owns, or neither.
OfTwo(first, second) ==
  [t \in Tags |-> NewTag(t + 1, IF t = 1 THEN first ELSE second, t)]
TwoProducts ==
  {OfTwo(<<1, 2>>, <<>>), OfTwo(<<3, 1>>, <<>>), OfTwo(<<3, 2>>, <<2, 2>>)}
OneWithRecipe == {OfTwo(<<1, 2>>, <<>>)}

\* tskSTACK_FILL_BYTE in every byte, the numbers of steps cut to what fits on
\* a tag: ID and RightNumber make no 255.
Filling == [id |-> 0, steps |-> 1, actual |-> 1, done |-> TRUE, cs |-> 42405, batch |-> 0]
=============================================================================
