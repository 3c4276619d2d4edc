---------------------------- MODULE EventStreamMC ----------------------------
(***************************************************************************)
(* Three scenes of EventStream in one instance, told apart by their first    *)
(* state: two tabs whose connections last, of turns without tools, with one  *)
(* event besides their ends; one turn whose tools run in parallel, and a tab *)
(* whose chat stream may be lost; and two turns, where tools of the first    *)
(* send into the second, while all is stored and the connection lasts.       *)
(***************************************************************************)
EXTENDS EventStream

CONSTANTS e1, e2, c1, c2

VARIABLES scene

SceneInit == Init /\ scene \in {"two tabs", "parallel tools", "left behind"}

NoTools ==
  /\ Chunk(e1) => counter = 0
  /\ sending'[e2] = NoEvent
  /\ astray' = {}

InScene ==
  CASE scene = "two tabs" -> NoTools /\ \A c \in Clients : ~Drop(c)
    [] scene = "parallel tools" ->
         /\ client'[c2] = NewClient /\ submitted' <= 1
         /\ Drop(c1) => client[c1].own # 0
    [] scene = "left behind" ->
         /\ client'[c2] = NewClient /\ ~Drop(c1)
         /\ \A e \in Emitters : ~Chunk(e) \/ counter < 2
         /\ \A e \in Emitters : ~StoreFails(e)

SceneNext == Next /\ InScene /\ UNCHANGED scene
SceneSpec == SceneInit /\ [][SceneNext]_<<vars, scene>> /\ Fairness
=============================================================================
