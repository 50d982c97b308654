-------------------------- MODULE MC_PopulateCache --------------------------
(* Instance of PopulateCache for TLC.  A page refers to a post, the post to *)
(* an author and the author back to the post; a tag refers to the page.    *)
EXTENDS PopulateCache, TLC

CONSTANTS page, post, author, tag, r1, r2, w1, w2

Refs == (page :> post) @@ (post :> author) @@ (author :> post) @@ (tag :> page)

TwoShards == {{page, post}, {author, tag}}

Asked ==
    {[mode |-> "one", root |-> page, depth |-> 2],
     [mode |-> "batch", root |-> page, depth |-> 2],
     [mode |-> "many", root |-> post, depth |-> 1],
     [mode |-> "one", root |-> tag, depth |-> 1]}

WrittenBy == (w1 :> {post, author}) @@ (w2 :> {author})

(* The given reads and writes are still to come, the others are over; the  *)
(* tag has been deleted before unless it is in use.                        *)
Start(readers, writers, tags, faults) ==
    /\ periodic = ~faults
    /\ row = [d \in Docs |-> [ver |-> 0, gone |-> d = tag /\ ~tags, by |-> None]]
    /\ cache = [d \in Docs |-> NoEntry]
    /\ flight = [d \in Docs |-> None]
    /\ slot = [r \in Readers |-> NoSlot]
    /\ rd = [r \in Readers |-> [NoRead EXCEPT !.pc = IF r \in readers THEN "idle" ELSE "panicked"]]
    /\ wr = [w \in Writers |-> [pc |-> IF w \in writers THEN "idle" ELSE "done", doc |-> None]]
    /\ left = [w \in Writers \cup {Timer} |-> {}]
    /\ panics = IF faults THEN 0 ELSE MaxPanics
    /\ nested = IF faults THEN MaxNestedClears ELSE 0

MCInit ==
    \/ Start({r1, r2}, {w1}, FALSE, TRUE)   \* two reads, a write, panics
    \/ Start({r1}, {w1, w2}, FALSE, FALSE)  \* a read, two writes, nested ones
    \/ Start({r1, r2}, {}, TRUE, TRUE)      \* two reads of three keys

MCSpec == MCInit /\ [][Next]_vars /\ Fairness
=============================================================================
