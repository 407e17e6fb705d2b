----------------------------- MODULE ChangeFeed -----------------------------
(***************************************************************************)
(* What WatchForDesiredLRPChanges promises its caller, seen from the       *)
(* caller's select: changes arrive in the order etcd made them, none       *)
(* twice, but changes made while no watcher is registered never arrive,    *)
(* and a broken or lagging watch loses the newest of those under way.      *)
(***************************************************************************)
EXTENDS Naturals, Sequences

VARIABLES
    feed,   \* the changes that the caller will receive, oldest first
    up      \* a watcher is registered with etcd

feedVars == <<feed, up>>

FeedInit == feed = <<>> /\ up = FALSE

\* A desired LRP is written: only a registered watcher hears of it.
Publish(c) ==
    /\ feed' = IF up THEN Append(feed, c) ELSE feed
    /\ up' = up

\* dispatchWatchEvents registers: the client.Watch with index 0 waits for
\* events from now on.
Connect ==
    /\ ~ up
    /\ up' = TRUE
    /\ feed' = feed

\* The watch breaks, or etcd has cleared the index it waits for (error 401):
\* the caller still receives what the goroutines hold, not what follows.
Lose(kept) ==
    /\ up
    /\ up' = FALSE
    /\ feed' = SubSeq(feed, 1, kept)

Take ==
    /\ feed # <<>>
    /\ feed' = Tail(feed)
    /\ up' = up

\* Nobody receives any more: the handler stopped the watch, or is gone.
Abandon == feed' = <<>> /\ up' = FALSE

\* The steps of the feed alone, for changes from the set C.
FeedNext(C) ==
    \/ \E c \in C : Publish(c)
    \/ Connect
    \/ \E kept \in 0 .. Len(feed) : Lose(kept)
    \/ Take
    \/ Abandon
=============================================================================
