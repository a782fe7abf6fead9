--------------------------- MODULE CreatorPromise ---------------------------
(***************************************************************************)
(* What the parts of creating an agent promise: the deployment queue       *)
(* (CreatorDeployment), the registration of the identity                   *)
(* (CreatorRegistration), the activation of a passkey wallet               *)
(* (PasskeyBootstrap) and the authority of a draft (CreatorAuthority).     *)
(***************************************************************************)
EXTENDS Naturals

CONSTANTS Sessions, Requests, Unset,  \* of CreatorAuthority
          Observation,                \* its Window
          Lifetime, MaxAuthorityTime

VARIABLES
    deploys,              \* how often Studio was told to deploy each draft
    log,                  \* what the deployment's events say
    final,                \* the chain's finalized block
    mint, uri,            \* the two transactions on chain
    mints, uris,          \* how often each was signed and sent
    relay,                \* actions the relay accepted: wallet and status
    inFlight,             \* wallets with an action sent by a page that is gone
    time, issued, key, rows, latest, file, handed, req    \* of CreatorAuthority

Authority == INSTANCE CreatorAuthority WITH
  clock <- time, Window <- Observation, MaxTime <- MaxAuthorityTime, None <- Unset

(* Studio is told to deploy a draft at most once (creator-worker.ts: "never
   send a second deploy in that case"), whatever crashes, overlapping
   workers and unknown outcomes there are. *)
DeployedOnce == \A d \in DOMAIN deploys : deploys[d] <= 1

(* However many tabs, reloads and lost answers there are, the passkey signs
   one mint and one URI update ("never duplicate mint",
   registerCreatorErc8004Agent). *)
SignedOnce == mints <= 1 /\ uris <= 1

(* What a reconcile (creator-registration.ts) appends as confirmed is final
   on chain: neither a reorganisation nor the order of the appends leaves a
   confirmed outcome without its transaction. *)
ReconciledIsFinal ==
    /\ log.mintRec.st = "CONFIRMED" => mint.st = "mined" /\ mint.blk <= final
    /\ log.uriRec.st = "CONFIRMED" => uri.st = "mined" /\ uri.blk <= final

(* "a reload cannot submit the same first action twice" (passkey-bootstrap.ts):
   of the actions a wallet sent, all but one were rejected without reaching
   the chain, whatever answers were lost and however often the page was
   reloaded while one was on its way. *)
OneFirstAction ==
  /\ \A i, j \in DOMAIN relay :
       i # j /\ relay[i].wallet = relay[j].wallet => "failed" \in {relay[i].status, relay[j].status}
  /\ \A w \in inFlight : \A i \in DOMAIN relay : relay[i].wallet = w => relay[i].status = "failed"

(* The runtime acts with a session's own key, while it lives and at most the
   observation window after its revocation (authority.ts
   requireRuntimeAuthority), whatever the stored status says. *)
UsedAuthorityIsLive == Authority!UsedAuthorityIsLive
=============================================================================
