---------------------------- MODULE MCAgentRun -----------------------------
(* One document in two versions that share a chunk under two locators; one *)
(* of the versions may have a chunk that the actor of the runs may not see.*)
EXTENDS AgentRun, TLC

ChunkOf(i, text, at, open) ==
    [id |-> <<i, text>>, pos |-> i, doc |-> "doc", locator |-> at, open |-> open, safe |-> TRUE]

Old == {ChunkOf(1, "a", "old", TRUE), ChunkOf(2, "b", "old", TRUE)}
New == {ChunkOf(1, "c", "new", FALSE), ChunkOf(2, "b", "new", TRUE)}
ImportOf(key, chunks) == [op |-> "import", key |-> key, doc |-> "doc", chunks |-> chunks]

MCImport == {ImportOf("i1", Old), ImportOf("i2", New)}
MCRun == {[op |-> "run", key |-> "k", input |-> "question", wants |-> {<<2, "b">>},
           search |-> TRUE]}

Slots == Permutations(Slot)
=============================================================================
