-------------------------- MODULE MCChatDurability --------------------------
(* Model checking of ChatDurability: what may happen in each run. *)
EXTENDS ChatDurability

Only(counts) == [op \in OpNames |-> IF op \in DOMAIN counts THEN counts[op] ELSE 0]

\* Two turns, torn and failed writes, a stripped image, a crash.
CrashBudget == Only([user |-> 2, reply |-> 1, image |-> 1, strip |-> 1, compact |-> 1,
                     repair |-> 1, fail |-> 1, crash |-> 1])

\* A process killed twice while it strips an image.
KilledBudget == Only([user |-> 2, reply |-> 1, image |-> 1, strip |-> 1, crash |-> 2])

\* A switch that is retried twice.
SwitchBudget == Only([user |-> 1, compact |-> 1, switch |-> 3, fail |-> 2, crash |-> 1])

\* Enough turns to be old, a message that is no turn, a compaction and a crash.
PruneBudget == Only([user |-> 3, reply |-> 1, interject |-> 1, compact |-> 1, crash |-> 1])

\* A memory reminder whose rewrite fails or is interrupted.
MemoryBudget == Only([user |-> 2, reply |-> 1, memory |-> 1, fail |-> 1, crash |-> 1])

Durable == {CrashBudget, KilledBudget, SwitchBudget, PruneBudget, MemoryBudget}

\* A compaction that leaves fewer user messages than there were prompts.
CompactedEarly == {Only([user |-> 3, reply |-> 1, interject |-> 2, compact |-> 1])}

\* An image is stripped and its file cannot be copied.
CopyFails == {Only([user |-> 2, reply |-> 1, image |-> 1, strip |-> 1, fail_copy |-> 1])}

\* A repair whose rewrite fails.
RepairFails == {Only([user |-> 1, reply |-> 1, repair |-> 1, fail |-> 1])}
=============================================================================
