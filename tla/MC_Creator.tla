----------------------------- MODULE MC_Creator -----------------------------
(***************************************************************************)
(* Creating an agent, for TLC: the first action of a passkey wallet        *)
(* (PasskeyBootstrap), signing in (SignIn), the authority of a draft       *)
(* (CreatorAuthority), the deployment queue (CreatorDeployment) and the    *)
(* registration of its identity (CreatorRegistration).  A behaviour is one *)
(* scene: one of the components; the others rest, so that what is promised *)
(* of them (CreatorPromise, SignIn) holds in every scene.                  *)
(***************************************************************************)
EXTENDS SignIn, CreatorPromise, TLC

CONSTANTS Workers,   \* concurrent ticks of the deployment worker
          Tabs       \* pages of one creator

VARIABLES scene,
  auth, dep, ws, provider, wk,
  bound, head, tab, closes,
  saved, page, reloads

deploymentVars == <<auth, dep, ws, deploys, provider, wk>>
registrationVars == <<log, bound, head, final, mint, uri, mints, uris, tab, closes>>
authorityVars == <<time, issued, key, rows, latest, file, handed, req>>
bootstrapVars == <<saved, page, relay, inFlight, reloads>>

NoDeployment == /\ auth = None /\ dep = None /\ ws = None
                /\ deploys = <<>> /\ provider = None /\ wk = None
NoSignIn == Init /\ rootKey = [w \in Wallets |-> "none"]
NoAuthority == Authority!Init

-----------------------------------------------------------------------------
(* A step may outlast its lease, so that two workers run for one draft. *)
Overrun == INSTANCE CreatorDeployment WITH Drafts <- {"d1"}, Overlap <- TRUE, Crashes <- TRUE

(* Two drafts of one wallet; a step ends before its lease. *)
Lease == INSTANCE CreatorDeployment WITH Drafts <- {"d1", "d2"}, Overlap <- FALSE, Crashes <- TRUE

Registration == INSTANCE CreatorRegistration WITH
  MaxBlock <- 2, Window <- 1, MaxCloses <- 0, Reorgs <- TRUE, SdkPending <- TRUE

(* One page that is closed and opened again. *)
Reload == INSTANCE CreatorRegistration WITH
  Tabs <- {"t"}, MaxBlock <- 3, Window <- 2, MaxCloses <- 2, Reorgs <- FALSE, SdkPending <- TRUE

NoRegistration == Reload!Init

Bootstrap == INSTANCE PasskeyBootstrap WITH MaxCalls <- 3, MaxReloads <- 2

NoBootstrap == Bootstrap!Init

DeploymentInit == \/ scene = "overrun" /\ Overrun!Init
                  \/ scene = "lease" /\ Lease!Init

DeploymentNext == \/ scene = "overrun" /\ Overrun!Next
                  \/ scene = "lease" /\ Lease!Next

RegistrationInit == \/ scene = "registration" /\ Registration!Init
                    \/ scene = "reload" /\ Reload!Init

RegistrationNext == \/ scene = "registration" /\ Registration!Next
                    \/ scene = "reload" /\ Reload!Next

CreatorInit ==
  \/ DeploymentInit /\ NoRegistration /\ NoSignIn /\ NoAuthority /\ NoBootstrap
  \/ RegistrationInit /\ NoDeployment /\ NoSignIn /\ NoAuthority /\ NoBootstrap
  \/ scene = "signin" /\ Init /\ NoDeployment /\ NoRegistration /\ NoAuthority /\ NoBootstrap
  \/ scene = "authority" /\ Authority!Init /\ NoDeployment /\ NoRegistration /\ NoSignIn /\ NoBootstrap
  \/ scene = "bootstrap" /\ Bootstrap!Init /\ NoDeployment /\ NoRegistration /\ NoSignIn /\ NoAuthority

CreatorNext ==
  /\ \/ DeploymentNext /\ UNCHANGED <<registrationVars, vars, authorityVars, bootstrapVars>>
     \/ RegistrationNext /\ UNCHANGED <<deploymentVars, vars, authorityVars, bootstrapVars>>
     \/ /\ scene = "signin" /\ Next
        /\ UNCHANGED <<deploymentVars, registrationVars, authorityVars, bootstrapVars>>
     \/ /\ scene = "authority" /\ Authority!Next
        /\ UNCHANGED <<deploymentVars, registrationVars, vars, bootstrapVars>>
     \/ /\ scene = "bootstrap" /\ Bootstrap!Next
        /\ UNCHANGED <<deploymentVars, registrationVars, vars, authorityVars>>
  /\ UNCHANGED scene

CreatorSpec == CreatorInit /\ [][CreatorNext]_<<scene, deploymentVars, registrationVars, vars, authorityVars, bootstrapVars>>

Symmetry == Permutations(Tabs) \cup Permutations(Workers)
=============================================================================
