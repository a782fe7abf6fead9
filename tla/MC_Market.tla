------------------------------ MODULE MC_Market ------------------------------
(***************************************************************************)
(* The marketplace's listings for TLC.  A behaviour is one scene.  Three   *)
(* are of Listing: an agent whose document changes while it is published,  *)
(* reviewed and taken down, with the constants of the configuration; an    *)
(* agent with two endpoints whose card is read while probes are stored and *)
(* age; and an agent whose category and vector follow its publication.     *)
(* Two are of DirectoryRead: requests that share the directory's cache     *)
(* while a seller is moderated and the reference provider's slot is taken, *)
(* with the constants of the configuration; and requests of every kind to  *)
(* processes of every configuration.  The component that a scene is not    *)
(* about rests, and its properties hold there.                             *)
(***************************************************************************)
EXTENDS Listing, DirectoryRead

VARIABLE scene

(* Scene "published": values of constants a configuration cannot write. *)
BothAdvertise == [d |-> {"a"}, e |-> {"a"}]
Moderations == {<<"listing", "suspended">>, <<"listing", "delisted">>, <<"verification", "rejected">>}

Shown == INSTANCE Listing WITH
  Docs <- {"e"}, Services <- {"a", "b"}, Advertises <- [e |-> {"a", "b"}],
  Explicit <- {"e"}, Answers <- {"healthy", "unhealthy"}, Reviews <- {}, Takedowns <- {},
  Sink <- FALSE, Reading <- TRUE, MaxAge <- 1, MaxTime <- 3, MaxVersions <- 1

Indexed == INSTANCE Listing WITH
  Docs <- {"d", "e"}, Services <- {"a"}, Advertises <- [d |-> {"a"}, e |-> {"a"}],
  Explicit <- {"d"}, Answers <- {"healthy", "unhealthy"}, Reviews <- {}, Takedowns <- {},
  Sink <- TRUE, Reading <- FALSE, MaxAge <- 1, MaxTime <- 0, MaxVersions <- 2

Request(kind, page, agent, preview) ==
  [kind |-> kind, page |-> page, agent |-> agent, chain |-> Nothing, preview |-> preview]

Process(mode, url, production, directory) ==
  [mode |-> mode, url |-> url, production |-> production, directory |-> directory, admission |-> TRUE,
   release |-> TRUE, ingestion |-> TRUE, evidence |-> FALSE]

(* Scene "directory": values of constants a configuration cannot write. *)
LiveProcess == {Process("live", "none", TRUE, TRUE)}
SearchAndDetail == {Request("search", TRUE, Nothing, Nothing), Request("agent", FALSE, "s", Nothing)}
TakedownAndCapacity == {<<"listing", "s">>, <<"capacity", "r">>}

Sources == INSTANCE DirectoryRead WITH
  Deployments <-
    {Process(m, u, p, FALSE) : m \in {"fixture", "degraded", "empty", "misspelt"}, u \in {"none", "self"}, p \in BOOLEAN}
    \cup {Process(m, u, p, FALSE) : m \in {"unset", "live"}, u \in {"none", "remote", "unusable"}, p \in BOOLEAN}
    \cup {[Process("live", "none", TRUE, d) EXCEPT !.evidence = TRUE, !.ingestion = d] : d \in BOOLEAN},
  Asks <- {Request("search", page, Nothing, v) : page \in BOOLEAN, v \in {Nothing, "loading", "empty", "degraded", "error"}}
          \cup {Request("agent", FALSE, "s", Nothing), Request("agent", TRUE, "r", Nothing),
                Request("home", TRUE, Nothing, Nothing), [Request("search", FALSE, Nothing, Nothing) EXCEPT !.chain = 97]},
  Changes <- {<<"listing", "s">>, <<"probe", "r">>, <<"version", "s">>, <<"version", "r">>, <<"capacity", "r">>},
  FreshFor <- 0, LastTime <- 1, MaxLoads <- 1, MaxChanges <- 2, MaxRequests <- 1

listingVars == <<now, up, offer, read, caps, observed, probe, axes, versions, current, predicted, vectors, run,
                 review, view, answered>>

(* Listing rests in an initial state of its own. *)
NoListing == Init /\ offer = "d" /\ read = "none" /\ up = [s \in Services |-> "healthy"]

(* No process reads. *)
NoRead == /\ clock = 0 /\ site = Nothing /\ rows = Nothing /\ allowance = Nothing /\ cache = Nothing /\ loads = <<>>
          /\ reader = <<>> /\ changes = 0 /\ gone = Nothing /\ unready = Nothing

MarketInit ==
  \/ scene = "published" /\ Init /\ NoRead
  \/ scene = "shown" /\ Shown!Init /\ NoRead
  \/ scene = "indexed" /\ Indexed!Init /\ NoRead
  \/ scene = "directory" /\ ReadInit /\ NoListing
  \/ scene = "sources" /\ Sources!ReadInit /\ NoListing

MarketNext ==
  /\ \/ scene = "published" /\ Next /\ UNCHANGED readVars
     \/ scene = "shown" /\ Shown!Next /\ UNCHANGED readVars
     \/ scene = "indexed" /\ Indexed!Next /\ UNCHANGED readVars
     \/ scene = "directory" /\ ReadNext /\ UNCHANGED listingVars
     \/ scene = "sources" /\ Sources!ReadNext /\ UNCHANGED listingVars
  /\ UNCHANGED scene

MarketSpec == MarketInit /\ [][MarketNext]_<<scene, vars, readVars>>
=============================================================================
