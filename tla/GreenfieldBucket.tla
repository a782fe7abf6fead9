-------------------------- MODULE GreenfieldBucket --------------------------
(***************************************************************************)
(* The one bucket mutation of the Greenfield adapter (greenfield-sdk.ts    *)
(* ensureCanaryBucket): inspect the chain and the storage provider, create *)
(* only what is proven missing, and remember in the adapter instance that  *)
(* a broadcast was left without an answer.  What a receipt means is        *)
(* ReceiptIsOurs of RecordsPromise.                                        *)
(***************************************************************************)
EXTENDS Naturals, FiniteSets

CONSTANTS Instances,  \* adapter instances (one for each run of the script)
          MaxCalls    \* bound on the calls of ensureCanaryBucket

VARIABLES bucket,               \* on the chain: "absent", "present" or "foreign" (another owner)
          indexed,              \* the storage provider knows it
          mempool,              \* creates not yet in a block: [answered, unanswered] for each instance
          canaryBucketUnknown,  \* the instances' flag
          pc, receipt, calls

vars == <<bucket, indexed, mempool, canaryBucketUnknown, pc, receipt, calls>>

(* Mutation: the owner of the bucket found is not compared. *)
inspectAnyOwner == {"unknown"} \cup (IF bucket = "absent" THEN {"missing"} ELSE {"present"})

(* inspectCanaryBucket: the chain query, then the virtual group, the
   provider set and the provider's metadata.  Any query may fail, which is
   never taken for an absent bucket; a mismatch throws. *)
inspectCanaryBucket ==
  {"unknown"} \cup (CASE bucket = "absent" -> {"missing"}
                      [] bucket = "foreign" -> {"error"}
                      [] OTHER -> IF indexed THEN {"present"} ELSE {})

Answer(i, status) == /\ receipt' = [receipt EXCEPT ![i] = status]
                     /\ pc' = [pc EXCEPT ![i] = "idle"]

(* ensureCanaryBucket up to its broadcast. *)
EnsureCanaryBucket(i) ==
  /\ pc[i] = "idle" /\ calls < MaxCalls
  /\ calls' = calls + 1
  /\ \E status \in inspectCanaryBucket :
       /\ canaryBucketUnknown' = [canaryBucketUnknown EXCEPT ![i] = @ /\ status # "present"]
       /\ IF status = "missing" /\ ~canaryBucketUnknown[i]
          THEN pc' = [pc EXCEPT ![i] = "broadcast"] /\ UNCHANGED receipt
          ELSE Answer(i, CASE status = "present" -> "reused" [] status = "error" -> "error" [] OTHER -> "unknown")
  /\ UNCHANGED <<bucket, indexed, mempool>>

(* The broadcast is refused, answered with a hash, or left without one. *)
BroadcastBucket(i) ==
  /\ pc[i] = "broadcast"
  /\ \/ /\ Answer(i, "error")
        /\ UNCHANGED <<mempool, canaryBucketUnknown>>
     \/ /\ mempool' = [mempool EXCEPT ![i].answered = @ + 1]
        /\ canaryBucketUnknown' = [canaryBucketUnknown EXCEPT ![i] = FALSE]
        /\ Answer(i, "created")
     \/ /\ \E landed \in 0..1 : mempool' = [mempool EXCEPT ![i].unanswered = @ + landed]
        /\ canaryBucketUnknown' = [canaryBucketUnknown EXCEPT ![i] = TRUE]
        /\ pc' = [pc EXCEPT ![i] = "unknown"]
        /\ UNCHANGED receipt
  /\ UNCHANGED <<bucket, indexed, calls>>

(* reconcileCanaryBucketAfterUnknown *)
AfterUnknown(i) ==
  /\ pc[i] = "unknown"
  /\ \E status \in inspectCanaryBucket :
       /\ canaryBucketUnknown' = [canaryBucketUnknown EXCEPT ![i] = @ /\ status # "present"]
       /\ Answer(i, CASE status = "present" -> "reused" [] status = "error" -> "error" [] OTHER -> "unknown")
  /\ UNCHANGED <<bucket, indexed, mempool, calls>>

(* A create enters a block: the first one makes the bucket. *)
IncludeBucket(i) ==
  /\ \E k \in {"answered", "unanswered"} : /\ mempool[i][k] > 0
                                          /\ mempool' = [mempool EXCEPT ![i][k] = @ - 1]
  /\ bucket' = IF bucket = "absent" THEN "present" ELSE bucket
  /\ UNCHANGED <<indexed, canaryBucketUnknown, pc, receipt, calls>>

IndexBucket ==
  /\ bucket = "present" /\ ~indexed
  /\ indexed' = TRUE
  /\ UNCHANGED <<bucket, mempool, canaryBucketUnknown, pc, receipt, calls>>

(* Somebody else takes the name first. *)
ForeignBucket ==
  /\ bucket = "absent"
  /\ bucket' = "foreign"
  /\ UNCHANGED <<indexed, mempool, canaryBucketUnknown, pc, receipt, calls>>

Init == /\ bucket = "absent" /\ indexed = FALSE /\ calls = 0
        /\ mempool = [i \in Instances |-> [answered |-> 0, unanswered |-> 0]]
        /\ canaryBucketUnknown = [i \in Instances |-> FALSE]
        /\ pc = [i \in Instances |-> "idle"]
        /\ receipt = [i \in Instances |-> "none"]

Next == \/ \E i \in Instances : \/ EnsureCanaryBucket(i) \/ BroadcastBucket(i) \/ AfterUnknown(i)
                                \/ IncludeBucket(i)
        \/ IndexBucket
        \/ ForeignBucket

Spec == Init /\ [][Next]_vars
=============================================================================
