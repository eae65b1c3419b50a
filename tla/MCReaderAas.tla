---------------------------- MODULE MCReaderAas ----------------------------
(***************************************************************************)
(* Instances of the reader of cell 1.  Cell 2 stands for the other ones in *)
(* the table of cells; cell 5, which owns the return to storage, is not in *)
(* the table.                                                              *)
(***************************************************************************)
EXTENDS ReaderAas

OneTag == {1}
TwoTags == {1, 2}
TableOfCells == {1, 2, 3}

\* Recipes of both cells and, as the last, the return to storage.
RecipeBook == <<<<1, 2>>, <<2, 1>>, <<5>>>>
StorageSteps == <<5>>

\* Tag t enters blank, with a recipe of no steps, or with a recipe, under an ID
\* of its own.
Blank(t) == NewTag(0, <<>>, t)
Empty(t) == NewTag(t + 1, <<>>, t)
Filled(t) == NewTag(t + 1, RecipeBook[t], t)
EachOneOf(kinds(_)) ==
  {f \in [Tags -> UNION {kinds(t) : t \in Tags}] : \A t \in Tags : f[t] \in kinds(t)}
AnyTag == LET kinds(t) == {Blank(t), Empty(t), Filled(t)} IN EachOneOf(kinds)
AllFilled == {[t \in Tags |-> Filled(t)]}

\* A product that comes from cell 2 with the first of its two steps done.
FromCell2(t) ==
  LET tag  == NewTag(t + 1, RecipeBook[2], t)
      done == [tag EXCEPT !.info.actual = 1, !.steps[1].done = TRUE]
  IN [done EXCEPT !.info.cs = CheckSum(done)]
FilledOrHalfway == LET kinds(t) == {Filled(t), FromCell2(t)} IN EachOneOf(kinds)

\* tskSTACK_FILL_BYTE in every byte: ID and RightNumber make no 255.
Filling == [id |-> 0, steps |-> 165, actual |-> 165, done |-> TRUE, cs |-> 42405,
            batch |-> 0]
=============================================================================
