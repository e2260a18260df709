------------------------------- MODULE MCPools -------------------------------
(***************************************************************************)
(* Pools from without and from within: a behaviour is one of the Ruby      *)
(* objects that own pools, or of the blocks in one pool after a history of *)
(* calls that leaves it with free chunks of one size or of several in a    *)
(* bin, of the last bin, or almost full.                                   *)
(***************************************************************************)
EXTENDS EngineObjects, MSpace

CONSTANTS
  Histories, \* bound: pools with the blocks asked for and those released
  MaxCalls   \* bound: calls after a history

VARIABLES
  part, \* 0: the objects; else the history of the pool
  calls

mcVars == <<vars, poolVars, part, calls>>

\* The blocks of a history in the order of its requests.
Asked(t, words) ==
  LET g == MspaceMalloc(t.space, words)
  IN  [space |-> Written(g.space, g.mem, 0, words),
       blocks |-> Append(t.blocks, Block(g.mem, words))]
Released(s, b) == MspaceFree(Written(s, b.mem, 0, 0), b.mem)

HistoryInit(h) ==
  LET new == NewSpace(h.capacity)
      own == [space |-> Written(new.space, new.mem, 0, PoolWords),
              blocks |-> <<>>]
      all == FoldLeft(Asked, own, h.asked)
      gone == [k \in DOMAIN h.released |-> all.blocks[h.released[k]]]
  IN  /\ space = FoldLeft(Released, all.space, gone)
      /\ blocks = {OwnBlock} \cup (Range(all.blocks) \ Range(gone))

MCInit ==
  /\ Init /\ calls = 0 /\ part \in 0..Len(Histories)
  /\ HistoryInit(Histories[Max({part, 1})])
MCNext ==
  /\ UNCHANGED part
  /\ \/ part = 0 /\ Next /\ UNCHANGED <<space, blocks, calls>>
     \/ /\ part > 0 /\ calls < MaxCalls /\ calls' = calls + 1
        /\ PoolNext /\ UNCHANGED vars
     \/ part > 0 /\ calls = MaxCalls /\ UNCHANGED mcVars
MCSpec == MCInit /\ [][MCNext]_mcVars

History(capacity, asked, released) ==
  [capacity |-> capacity, asked |-> asked, released |-> released]
MCHistories ==
  <<History(32, <<>>, <<>>),
    History(60, <<3, 3, 3, 5, 5, 5, 3>>, <<1, 3, 5>>),
    History(96, <<15, 1, 15, 1, 15, 1>>, <<1, 3, 5>>),
    History(108, <<15, 1, 17, 1, 21, 1, 19, 1>>, <<1, 3, 5, 7>>),
    History(100, <<25, 1, 39, 1>>, <<1, 3>>)>>
==============================================================================
