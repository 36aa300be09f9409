---------------------------- MODULE RefreshProofs -----------------------------
(* Proofs about RefreshCheckpoint, for every set of requests, sources,        *)
(* documents and bodies, and any number of cycles and damaged files; and      *)
(* about EvidenceRepair, PlatformReadiness and DriftEvidence, as MCEvidence    *)
(* instantiates them: any runs, hosts, failures, repairs and audits, any      *)
(* checks, manifests and builders, any datasets, models and report files.     *)
EXTENDS MCEvidence, Integers, Sequences, FiniteSetTheorems, TLAPS

-----------------------------------------------------------------------------
(* The inductive invariant.  Sidecars are only ever written over bodies just  *)
(* fetched, so they name nothing else; and a command that got past its checks *)
(* works under the request the directory is bound to.                         *)

SidesNameFetched ==
    /\ \A d \in Docs : /\ filing[d].side \in Fetched \cup {Absent}
                       /\ cache[d].side \in Fetched \cup {Absent}
                       /\ previous[d].side \in Fetched \cup {Absent}
    /\ \A s \in Sources : asset[s].side \in {contract, Absent}

Working == {"receipt", "seeding", "sealing", "early", "documents", "late"}

Using == {"finalized", "promoting", "promoted", "saving", "saved", "found", "forecast", "settled"}

Bound ==
    /\ pc \in Working => contract = request /\ ~manifest
    /\ pc = "contracting" => contract = Torn
    /\ pc = "seeding" => receipt = Absent
    /\ pc \in Using => manifest
    /\ contract \in {Absent, Torn} =>
          /\ receipt = Absent /\ ~manifest
          /\ \A s \in Sources : asset[s] = None
    /\ receipt \in {Absent, contract}

(* The items of a stage are of the stage's kind.                              *)
Scoped ==
    /\ pc = "seeding" => pending \subseteq {"cache", "previous"} \X Docs \X {"body", "side"}
    /\ pc = "promoting" => pending \subseteq {"filing"} \X Docs \X {"body", "side"}
    /\ pc = "early" => pending \subseteq Early
    /\ pc = "late" => pending \subseteq Late
    /\ pc = "documents" => pending \subseteq Docs

(* What the current stage has already settled.                                *)
DocsSettled(done) ==
    \A d \in done : index[d] # "undecided" /\ (index[d] = "ok" => Verified(filing[d]))

Settled ==
    /\ pc = "early" => \A s \in Early \ pending : Verified(asset[s])
    /\ pc \in {"documents", "late"} => \A s \in Early : Verified(asset[s])
    /\ pc = "late" => \A s \in Late \ pending : Verified(asset[s])
    /\ pc = "documents" => DocsSettled(Docs \ pending)
    /\ pc = "late" => DocsSettled(Docs)

(* A body renamed into place whose sidecar is not written yet.                *)
Unsealed ==
    /\ pc \in {"early", "late"} /\ unsealed # Absent =>
          unsealed \in Sources \cap pending /\ asset[unsealed].body = request
    /\ pc = "documents" /\ unsealed # Absent =>
          unsealed \in Docs \cap pending /\ filing[unsealed].body \in Fetched

ManifestTrue ==
    manifest =>
       /\ contract \in Requests
       /\ \A s \in Sources : Verified(asset[s])
       /\ DocsSettled(Docs)

IInv == /\ TypeOK /\ SidesNameFetched /\ Bound /\ Scoped
        /\ Settled /\ Unsealed /\ ManifestTrue

-----------------------------------------------------------------------------
(* Initially: nothing on disk but, perhaps, a legacy cache.                   *)

USE NamesAssumption

LEMMA InitIInv == Init => IInv
  BY DEF Init, IInv, TypeOK, SidesNameFetched, Bound, Scoped, Settled, Unsealed,
         ManifestTrue, Working, Using, File, None, Sources, Bodies

-----------------------------------------------------------------------------
(* Starting: a refused start changes nothing but the answer.                  *)

LEMMA StartRefusedStep ==
  ASSUME IInv, NEW q \in Requests, NEW again \in BOOLEAN, StartRefused(q, again)
  PROVE  IInv'
  <1>. USE DEF IInv, StartRefused, StartRefusal, checkpoint, stores, datasets, bounds
  <1>1. TypeOK' /\ SidesNameFetched' /\ Scoped' /\ Settled' /\ Unsealed'
    BY DEF TypeOK, SidesNameFetched, Scoped, Settled, Unsealed
  <1>2. Bound'
    BY DEF Bound, Working, Using
  <1>3. ManifestTrue'
    BY DEF ManifestTrue, DocsSettled
  <1>. QED BY <1>1, <1>2, <1>3

LEMMA StartStep ==
  ASSUME IInv, NEW q \in Requests, NEW again \in BOOLEAN, Start(q, again)
  PROVE  IInv'
  <1>. USE DEF IInv, Start, StartRefusal, FirstStage, stores, datasets, bounds
  <1>1. TypeOK' /\ SidesNameFetched' /\ Scoped' /\ Settled' /\ Unsealed'
    BY DEF TypeOK, SidesNameFetched, Scoped, Settled, Unsealed
  <1>2. Bound'
    BY DEF TypeOK, Bound, Working, Using
  <1>3. ManifestTrue'
    BY DEF ManifestTrue, DocsSettled
  <1>. QED BY <1>1, <1>2, <1>3

LEMMA PublishRequestStep == ASSUME IInv, PublishRequest PROVE IInv'
  <1>. USE DEF IInv, PublishRequest, stores, datasets, bounds, Enter
  <1>1. TypeOK' /\ Bound' /\ Scoped' /\ Settled' /\ Unsealed'
    BY DEF TypeOK, Bound, Using, Scoped, Settled, Unsealed
  <1>2. SidesNameFetched'
    BY DEF SidesNameFetched, Bound, None
  <1>3. ManifestTrue'
    BY DEF ManifestTrue, Bound
  <1>. QED BY <1>1, <1>2, <1>3

-----------------------------------------------------------------------------
(* The receipt and the seeding stage, up to the files themselves.             *)

LEMMA NoSeedingStep == ASSUME IInv, NoSeeding PROVE IInv'
  <1>. USE DEF IInv, NoSeeding, checkpoint, stores, datasets, bounds, Enter
  <1>1. TypeOK' /\ SidesNameFetched' /\ Scoped' /\ Settled' /\ Unsealed'
    BY DEF TypeOK, SidesNameFetched, Scoped, Settled, Unsealed
  <1>2. Bound'
    BY DEF Bound, Working, Using
  <1>3. ManifestTrue'
    BY DEF ManifestTrue, Bound, Working, Using
  <1>. QED BY <1>1, <1>2, <1>3

LEMMA ReceiptAcceptedStep == ASSUME IInv, ReceiptAccepted PROVE IInv'
  <1>. USE DEF IInv, ReceiptAccepted, checkpoint, stores, datasets, bounds, Enter
  <1>1. TypeOK' /\ SidesNameFetched' /\ Scoped' /\ Settled' /\ Unsealed'
    BY DEF TypeOK, SidesNameFetched, Scoped, Settled, Unsealed
  <1>2. Bound'
    BY DEF Bound, Working, Using
  <1>3. ManifestTrue'
    BY DEF ManifestTrue, Bound, Working, Using
  <1>. QED BY <1>1, <1>2, <1>3

LEMMA ReceiptRefusedStep == ASSUME IInv, ReceiptRefused PROVE IInv'
  <1>. USE DEF IInv, ReceiptRefused, checkpoint, stores, datasets, bounds, Refuse
  <1>1. TypeOK' /\ SidesNameFetched' /\ Scoped' /\ Settled' /\ Unsealed'
    BY DEF TypeOK, SidesNameFetched, Scoped, Settled, Unsealed
  <1>2. Bound'
    BY DEF Bound, Working, Using
  <1>3. ManifestTrue'
    BY DEF ManifestTrue, Bound, Working, Using
  <1>. QED BY <1>1, <1>2, <1>3

LEMMA BeginSeedStep == ASSUME IInv, BeginSeed PROVE IInv'
  <1>. USE DEF IInv, BeginSeed, FilesOf, checkpoint, stores, datasets, bounds, Enter
  <1>1. TypeOK' /\ SidesNameFetched' /\ Scoped' /\ Settled' /\ Unsealed'
    BY DEF TypeOK, SidesNameFetched, Scoped, Settled, Unsealed
  <1>2. Bound'
    BY DEF Bound, Working, Using
  <1>3. ManifestTrue'
    BY DEF ManifestTrue, Bound, Working, Using
  <1>. QED BY <1>1, <1>2, <1>3

LEMMA PublishReceiptStep == ASSUME IInv, PublishReceipt PROVE IInv'
  <1>. USE DEF IInv, PublishReceipt, stores, datasets, bounds, Enter
  <1>1. SidesNameFetched' /\ Scoped' /\ Settled' /\ Unsealed'
    BY DEF SidesNameFetched, Scoped, Settled, Unsealed
  <1>2. TypeOK'
    BY DEF TypeOK, Bound, Working, Using
  <1>3. Bound'
    BY DEF TypeOK, Bound, Working, Using
  <1>4. ManifestTrue'
    BY DEF ManifestTrue, Bound, Working, Using
  <1>. QED BY <1>1, <1>2, <1>3, <1>4

LEMMA SealReceiptStep == ASSUME IInv, SealReceipt PROVE IInv'
  <1>. USE DEF IInv, SealReceipt, stores, datasets, bounds, Enter
  <1>1. TypeOK' /\ SidesNameFetched' /\ Scoped' /\ Settled' /\ Unsealed'
    BY DEF TypeOK, SidesNameFetched, Scoped, Settled, Unsealed
  <1>2. Bound'
    BY DEF Bound, Working, Using
  <1>3. ManifestTrue'
    BY DEF ManifestTrue, Bound, Working, Using
  <1>. QED BY <1>1, <1>2, <1>3

LEMMA SeedConflictStep == ASSUME IInv, NEW f \in pending, SeedConflict(f) PROVE IInv'
  <1>. USE DEF IInv, SeedConflict, checkpoint, stores, datasets, bounds, Refuse
  <1>1. TypeOK' /\ SidesNameFetched' /\ Scoped' /\ Settled' /\ Unsealed'
    BY DEF TypeOK, SidesNameFetched, Scoped, Settled, Unsealed
  <1>2. Bound'
    BY DEF Bound, Working, Using
  <1>3. ManifestTrue'
    BY DEF ManifestTrue, Bound, Working, Using
  <1>. QED BY <1>1, <1>2, <1>3

-----------------------------------------------------------------------------
(* Fetching.                                                                  *)

LEMMA BeginDocumentsStep == ASSUME IInv, BeginDocuments PROVE IInv'
  <1>. USE DEF IInv, BeginDocuments, stores, datasets, bounds, Enter
  <1>1. TypeOK' /\ SidesNameFetched' /\ Scoped' /\ Unsealed'
    BY DEF TypeOK, SidesNameFetched, Scoped, Unsealed
  <1>2. Bound'
    BY DEF Bound, Working, Using
  <1>3. Settled'
    BY DEF Settled, DocsSettled
  <1>4. ManifestTrue'
    BY DEF ManifestTrue, Bound, Working, Using
  <1>. QED BY <1>1, <1>2, <1>3, <1>4

LEMMA BeginLateStep == ASSUME IInv, BeginLate PROVE IInv'
  <1>. USE DEF IInv, BeginLate, checkpoint, stores, datasets, bounds, Enter
  <1>1. TypeOK' /\ SidesNameFetched' /\ Scoped' /\ Unsealed'
    BY DEF TypeOK, SidesNameFetched, Scoped, Unsealed
  <1>2. Bound'
    BY DEF Bound, Working, Using
  <1>3. Settled'
    BY DEF Settled, DocsSettled
  <1>4. ManifestTrue'
    BY DEF ManifestTrue, Bound, Working, Using
  <1>. QED BY <1>1, <1>2, <1>3, <1>4

LEMMA FinalizeStep == ASSUME IInv, Finalize PROVE IInv'
  <1>. USE DEF IInv, Finalize, stores, datasets, bounds, Enter
  <1>1. TypeOK' /\ SidesNameFetched' /\ Scoped' /\ Settled' /\ Unsealed'
    BY DEF TypeOK, SidesNameFetched, Scoped, Settled, Unsealed
  <1>2. Bound'
    BY DEF TypeOK, Bound, Working, Using
  <1>3. ManifestTrue'
    BY DEF TypeOK, ManifestTrue, DocsSettled, Bound, Working, Using, Settled, Sources
  <1>. QED BY <1>1, <1>2, <1>3

LEMMA ReuseSourceStep == ASSUME IInv, NEW s \in Sources, ReuseSource(s) PROVE IInv'
  <1>. USE DEF IInv, ReuseSource, InStage, Reusable, checkpoint, stores, datasets, bounds, Completed
  <1>1. TypeOK' /\ SidesNameFetched' /\ Bound' /\ Scoped' /\ Unsealed'
    BY DEF TypeOK, SidesNameFetched, Bound, Using, Scoped, Unsealed
  <1>2. Settled'
    BY DEF Settled, DocsSettled
  <1>3. ManifestTrue'
    BY DEF ManifestTrue, Bound, Working, Using
  <1>. QED BY <1>1, <1>2, <1>3

LEMMA FetchSourceStep == ASSUME IInv, NEW s \in Sources, FetchSource(s) PROVE IInv'
  <1>. USE DEF IInv, FetchSource, InStage, Reusable, stores, datasets, bounds
  <1>1. SidesNameFetched' /\ Scoped'
    BY DEF SidesNameFetched, Scoped
  <1>2. TypeOK'
    <2>1. asset' \in [Sources -> File(Requests \cup {Damaged})]
      BY DEF TypeOK, File
    <2>. QED BY <2>1 DEF TypeOK
  <1>3. Bound'
    BY DEF TypeOK, Bound, Working, Using
  <1>4. Settled'
    BY DEF TypeOK, Settled, DocsSettled, Verified, Sources, Scoped, Unsealed, File
  <1>5. Unsealed'
    BY DEF TypeOK, Unsealed
  <1>6. ManifestTrue'
    BY DEF ManifestTrue, Bound, Working, Using
  <1>. QED BY <1>1, <1>2, <1>3, <1>4, <1>5, <1>6

LEMMA SealSourceStep == ASSUME IInv, NEW s \in Sources, SealSource(s) PROVE IInv'
  <1>. USE DEF IInv, SealSource, stores, datasets, bounds, Completed
  <1>1. Scoped' /\ Unsealed'
    BY DEF Scoped, Unsealed
  <1>2. TypeOK'
    BY DEF TypeOK, File
  <1>3. SidesNameFetched'
    BY DEF TypeOK, SidesNameFetched, Bound, None, Unsealed, Sources, File, Working, Using
  <1>4. Bound'
    BY DEF Bound, Using, None
  <1>5. Settled'
    BY DEF TypeOK, Settled, DocsSettled, Verified, Unsealed
  <1>6. ManifestTrue'
    BY DEF ManifestTrue, Bound, Working, Using
  <1>. QED BY <1>1, <1>2, <1>3, <1>4, <1>5, <1>6

LEMMA SourceFailsStep == ASSUME IInv, NEW s \in Sources, SourceFails(s) PROVE IInv'
  <1>. USE DEF IInv, SourceFails, InStage, Reusable, checkpoint, stores, datasets, bounds, Refuse
  <1>1. TypeOK' /\ SidesNameFetched' /\ Scoped' /\ Settled' /\ Unsealed'
    BY DEF TypeOK, SidesNameFetched, Scoped, Settled, Unsealed
  <1>2. Bound'
    BY DEF Bound, Working, Using
  <1>3. ManifestTrue'
    BY DEF ManifestTrue, Bound, Working, Using
  <1>. QED BY <1>1, <1>2, <1>3

LEMMA ReuseDocumentStep == ASSUME IInv, NEW d \in Docs, ReuseDocument(d) PROVE IInv'
  <1>. USE DEF IInv, ReuseDocument, InStage, Reusable, Record, stores, datasets, bounds, Completed
  <1>1. TypeOK' /\ SidesNameFetched' /\ Bound' /\ Scoped' /\ Unsealed'
    BY DEF TypeOK, SidesNameFetched, Bound, Using, Scoped, Unsealed
  <1>2. Settled'
    BY DEF TypeOK, Settled, DocsSettled
  <1>3. ManifestTrue'
    BY DEF ManifestTrue, Bound, Working, Using
  <1>. QED BY <1>1, <1>2, <1>3

LEMMA FetchDocumentStep == ASSUME IInv, NEW d \in Docs, FetchDocument(d) PROVE IInv'
  <1>. USE DEF IInv, FetchDocument, InStage, Reusable, stores, datasets, bounds
  <1>1. SidesNameFetched' /\ Bound' /\ Scoped'
    BY DEF SidesNameFetched, Bound, Using, Scoped
  <1>2. TypeOK'
    <2>1. filing' \in [Docs -> File(Bodies)]
      BY DEF TypeOK, File, Bodies
    <2>. QED BY <2>1 DEF TypeOK
  <1>3. Settled'
    BY DEF Settled, DocsSettled
  <1>4. Unsealed'
    BY DEF TypeOK, Unsealed
  <1>5. ManifestTrue'
    BY DEF ManifestTrue, Bound, Working, Using
  <1>. QED BY <1>1, <1>2, <1>3, <1>4, <1>5

LEMMA SealDocumentStep == ASSUME IInv, NEW d \in Docs, SealDocument(d) PROVE IInv'
  <1>. USE DEF IInv, SealDocument, Record, stores, datasets, bounds, Completed
  <1>1. Bound' /\ Scoped' /\ Unsealed'
    BY DEF Bound, Using, Scoped, Unsealed
  <1>2. TypeOK'
    BY DEF TypeOK, File
  <1>3. SidesNameFetched'
    BY DEF SidesNameFetched, Unsealed
  <1>4. Settled'
    BY DEF TypeOK, Settled, DocsSettled, Verified, Unsealed, Bodies
  <1>5. ManifestTrue'
    BY DEF ManifestTrue, Bound, Working, Using
  <1>. QED BY <1>1, <1>2, <1>3, <1>4, <1>5

LEMMA DocumentFailsStep == ASSUME IInv, NEW d \in Docs, DocumentFails(d) PROVE IInv'
  <1>. USE DEF IInv, DocumentFails, Record, Reusable, stores, datasets, bounds, Completed
  <1>1. TypeOK' /\ SidesNameFetched' /\ Bound' /\ Scoped' /\ Unsealed'
    BY DEF TypeOK, SidesNameFetched, Bound, Using, Scoped, Unsealed
  <1>2. Settled'
    BY DEF TypeOK, Settled, DocsSettled
  <1>3. ManifestTrue'
    BY DEF ManifestTrue, Bound, Working, Using
  <1>. QED BY <1>1, <1>2, <1>3

-----------------------------------------------------------------------------
(* Promotion, the next cycle and interruptions.                               *)

LEMMA FinishedStep == ASSUME IInv, Finished PROVE IInv'
  <1>. USE DEF IInv, Finished, checkpoint, stores, datasets, bounds, Enter
  <1>1. TypeOK' /\ SidesNameFetched' /\ Scoped' /\ Settled' /\ Unsealed'
    BY DEF TypeOK, SidesNameFetched, Scoped, Settled, Unsealed
  <1>2. Bound'
    BY DEF Bound, Working, Using
  <1>3. ManifestTrue'
    BY DEF ManifestTrue, DocsSettled
  <1>. QED BY <1>1, <1>2, <1>3

LEMMA BeginPromotionStep == ASSUME IInv, BeginPromotion PROVE IInv'
  <1>. USE DEF IInv, BeginPromotion, FilesOf, checkpoint, stores, datasets, bounds, Enter
  <1>1. TypeOK' /\ SidesNameFetched' /\ Scoped' /\ Settled' /\ Unsealed'
    BY DEF TypeOK, SidesNameFetched, Scoped, Settled, Unsealed
  <1>2. Bound'
    BY DEF Bound, Working, Using
  <1>3. ManifestTrue'
    BY DEF ManifestTrue, DocsSettled
  <1>. QED BY <1>1, <1>2, <1>3

LEMMA PromotedStep == ASSUME IInv, Promoted PROVE IInv'
  <1>. USE DEF IInv, Promoted, checkpoint, stores, datasets, bounds, Enter
  <1>1. TypeOK' /\ SidesNameFetched' /\ Scoped' /\ Settled' /\ Unsealed'
    BY DEF TypeOK, SidesNameFetched, Scoped, Settled, Unsealed
  <1>2. Bound'
    BY DEF Bound, Working, Using
  <1>3. ManifestTrue'
    BY DEF ManifestTrue, DocsSettled
  <1>. QED BY <1>1, <1>2, <1>3

LEMMA PromotionConflictStep ==
  ASSUME IInv, NEW f \in pending, PromotionConflict(f)
  PROVE  IInv'
  <1>. USE DEF IInv, PromotionConflict, checkpoint, stores, datasets, bounds, Refuse
  <1>1. TypeOK' /\ SidesNameFetched' /\ Scoped' /\ Settled' /\ Unsealed'
    BY DEF TypeOK, SidesNameFetched, Scoped, Settled, Unsealed
  <1>2. Bound'
    BY DEF Bound, Working, Using
  <1>3. ManifestTrue'
    BY DEF ManifestTrue, DocsSettled
  <1>. QED BY <1>1, <1>2, <1>3

LEMMA NextCycleStep == ASSUME IInv, NextCycle PROVE IInv'
  <1>. USE DEF IInv, NextCycle
  <1>1. Scoped' /\ Settled' /\ Unsealed' /\ ManifestTrue'
    BY DEF Scoped, Settled, Unsealed, ManifestTrue
  <1>2. TypeOK'
    BY DEF TypeOK, File, None
  <1>3. SidesNameFetched'
    BY DEF SidesNameFetched, None
  <1>4. Bound'
    BY DEF Bound, Working, Using
  <1>. QED BY <1>1, <1>2, <1>3, <1>4

LEMMA InterruptStep == ASSUME IInv, Interrupt PROVE IInv'
  <1>. USE DEF IInv, Interrupt, checkpoint, stores, datasets, bounds, Refuse
  <1>1. TypeOK' /\ SidesNameFetched' /\ Scoped' /\ Settled' /\ Unsealed'
    BY DEF TypeOK, SidesNameFetched, Scoped, Settled, Unsealed
  <1>2. Bound'
    BY DEF Bound, Working, Using
  <1>3. ManifestTrue'
    BY DEF ManifestTrue, DocsSettled
  <1>. QED BY <1>1, <1>2, <1>3

-----------------------------------------------------------------------------
(* Merging takes bodies and sidecars from the source or leaves the target's,  *)
(* so it introduces neither contents nor sidecars of its own.                 *)

LEMMA LinkedFile ==
  ASSUME NEW source \in File(Bodies), NEW target \in File(Bodies),
         NEW part \in {"body", "side"},
         source.side \in Fetched \cup {Absent}, target.side \in Fetched \cup {Absent}
  PROVE  /\ Linked(source, target, part) \in File(Bodies)
         /\ Linked(source, target, part).side \in Fetched \cup {Absent}
  <1>1. CASE part = "body"
    BY <1>1 DEF Linked, File
  <1>2. CASE part = "side"
    BY <1>2 DEF Linked, File
  <1>. QED BY <1>1, <1>2

LEMMA SeedFileStep == ASSUME IInv, NEW f \in pending, SeedFile(f) PROVE IInv'
  <1>. USE DEF IInv, SeedFile, Completed, stores, datasets, bounds
  <1>. DEFINE source == Tree(f[1])[f[2]]
  <1>1. f[1] \in {"cache", "previous"} /\ f[2] \in Docs /\ f[3] \in {"body", "side"}
    BY DEF Scoped
  <1>2. /\ source \in File(Bodies) /\ source.side \in Fetched \cup {Absent}
        /\ filing[f[2]] \in File(Bodies) /\ filing[f[2]].side \in Fetched \cup {Absent}
    BY <1>1 DEF TypeOK, SidesNameFetched, Tree
  <1>3. /\ Linked(source, filing[f[2]], f[3]) \in File(Bodies)
        /\ Linked(source, filing[f[2]], f[3]).side \in Fetched \cup {Absent}
    BY <1>1, <1>2, LinkedFile
  <1>4. filing' = [filing EXCEPT ![f[2]] = Linked(source, filing[f[2]], f[3])]
    OBVIOUS
  <1>. HIDE DEF source
  <1>5a. filing' \in [Docs -> File(Bodies)]
    BY ONLY TypeOK, <1>1, <1>3, <1>4 DEF TypeOK
  <1>5. TypeOK'
    BY <1>5a DEF TypeOK
  <1>6. SidesNameFetched'
    BY <1>1, <1>3, <1>4 DEF TypeOK, SidesNameFetched
  <1>7. Bound' /\ Scoped'
    BY DEF Bound, Scoped, Working, Using
  <1>8. Settled' /\ Unsealed' /\ ManifestTrue'
    BY DEF Settled, Unsealed, ManifestTrue, Bound, Working, Using
  <1>. QED BY <1>5, <1>6, <1>7, <1>8

LEMMA PromoteFileStep == ASSUME IInv, NEW f \in pending, PromoteFile(f) PROVE IInv'
  <1>. USE DEF IInv, PromoteFile, Completed, checkpoint, datasets, bounds
  <1>1. f[2] \in Docs /\ f[3] \in {"body", "side"}
    BY DEF Scoped
  <1>2. /\ filing[f[2]] \in File(Bodies) /\ filing[f[2]].side \in Fetched \cup {Absent}
        /\ cache[f[2]] \in File(Bodies) /\ cache[f[2]].side \in Fetched \cup {Absent}
    BY <1>1 DEF TypeOK, SidesNameFetched
  <1>3. /\ Linked(filing[f[2]], cache[f[2]], f[3]) \in File(Bodies)
        /\ Linked(filing[f[2]], cache[f[2]], f[3]).side \in Fetched \cup {Absent}
    BY <1>1, <1>2, LinkedFile
  <1>4. TypeOK'
    BY <1>1, <1>3 DEF TypeOK
  <1>5. SidesNameFetched'
    BY <1>1, <1>3 DEF TypeOK, SidesNameFetched
  <1>6. Bound' /\ Scoped'
    BY DEF Bound, Scoped, Working, Using
  <1>7. Settled' /\ Unsealed' /\ ManifestTrue'
    BY DEF Settled, DocsSettled, Verified, Unsealed, ManifestTrue
  <1>. QED BY <1>4, <1>5, <1>6, <1>7

-----------------------------------------------------------------------------
(* Building a dataset and loading it work beside the checkpoint.              *)

LEMMA BuildDatasetStep == ASSUME IInv, NEW v \in Versions, BuildDataset(v) PROVE IInv'
  <1>. USE DEF IInv, BuildDataset, Intact, checkpoint, bounds, Enter
  <1>1. SidesNameFetched' /\ Scoped' /\ Settled' /\ Unsealed'
    BY DEF SidesNameFetched, Scoped, Settled, Unsealed
  <1>2. Evidenced \in [Docs -> Bodies \cup {Absent}]
    BY DEF TypeOK, Evidenced, File
  <1>3. TypeOK'
    BY <1>2 DEF TypeOK, File
  <1>4. Bound'
    BY DEF Bound, Working, Using
  <1>5. ManifestTrue'
    BY DEF ManifestTrue, DocsSettled
  <1>. QED BY <1>1, <1>3, <1>4, <1>5

LEMMA SaveDatasetStep == ASSUME IInv, NEW v \in Versions, SaveDataset(v) PROVE IInv'
  <1>. USE DEF IInv, SaveDataset, checkpoint, bounds, Enter
  <1>1. SidesNameFetched' /\ Scoped' /\ Settled' /\ Unsealed'
    BY DEF SidesNameFetched, Scoped, Settled, Unsealed
  <1>2. TypeOK'
    BY DEF TypeOK, File
  <1>3. Bound'
    BY DEF Bound, Working, Using
  <1>4. ManifestTrue'
    BY DEF ManifestTrue, DocsSettled
  <1>. QED BY <1>1, <1>2, <1>3, <1>4

LEMMA ModellingStep == ASSUME IInv, Modelling PROVE IInv'
  <1>1. ASSUME NEW stage \in {"found", "forecast", "settled", "down"}, pc \in Using,
               UNCHANGED <<checkpoint, rotten, cache, previous, processed, bounds>>,
               pc' = stage, unsealed' = Absent, request' = request
        PROVE  IInv'
    <2>. USE <1>1 DEF IInv, checkpoint, bounds
    <2>1. TypeOK' /\ SidesNameFetched' /\ Scoped' /\ Settled' /\ Unsealed'
      BY DEF TypeOK, SidesNameFetched, Scoped, Settled, Unsealed
    <2>2. Bound'
      BY DEF Bound, Working, Using
    <2>3. ManifestTrue'
      BY DEF ManifestTrue, DocsSettled
    <2>. QED BY <2>1, <2>2, <2>3
  <1>. USE DEF Enter, Refuse, Using, stores, datasets
  <1>2. CASE FindRefused
    BY <1>1, <1>2 DEF FindRefused
  <1>3. CASE Conclude
    BY <1>1, <1>3 DEF Conclude
  <1>4. CASE \E v \in Versions : BuildRefused(v) \/ FindDataset(v) \/ LoadRefused(v)
    BY <1>1, <1>4 DEF BuildRefused, FindDataset, LoadRefused
  <1>5. CASE \E v \in Versions : Forecast(v) \/ Settle(v)
    BY <1>1, <1>5 DEF Forecast, Settle, Load
  <1>. QED BY <1>2, <1>3, <1>4, <1>5, BuildDatasetStep, SaveDatasetStep DEF Modelling

-----------------------------------------------------------------------------
(* Damage writes no sidecar: it changes a body, or removes files.             *)

LEMMA DecayedFile ==
  ASSUME NEW contents, Damaged \in contents,
         NEW before \in File(contents), NEW x \in Decayed(before)
  PROVE  x \in File(contents) /\ x.side \in {before.side, Absent}
  BY DEF Decayed, File, None

LEMMA DamageStep == ASSUME IInv, Damage PROVE IInv'
  <1>. USE DEF IInv, command
  <1>0. /\ pc \in {"down", "promoted", "found", "forecast"}
        /\ UNCHANGED command /\ cycles' \in Nat /\ damage' \in Nat
        /\ DamageStored \/ DamageCheckpoint
    BY DEF Damage, TypeOK
  <1>. USE <1>0
  <1>1. Damaged \in Bodies
    BY DEF Bodies
  <1>2. CASE DamageStored
    <2>. USE <1>2 DEF DamageStored, checkpoint
    <2>1. TypeOK' /\ SidesNameFetched'
      <3>1. CASE \E d \in Docs : \E x \in Decayed(cache[d]) :
                    /\ cache' = [cache EXCEPT ![d] = x]
                    /\ UNCHANGED <<checkpoint, previous, datasets>>
        <4>0. PICK d \in Docs : \E x \in Decayed(cache[d]) : cache' = [cache EXCEPT ![d] = x]
          BY <3>1
        <4>1. PICK x \in Decayed(cache[d]) : cache' = [cache EXCEPT ![d] = x]
          BY <4>0
        <4>2. x \in File(Bodies) /\ x.side \in Fetched \cup {Absent}
          BY <1>1, DecayedFile DEF TypeOK, SidesNameFetched
        <4>3. cache' \in [Docs -> File(Bodies)] /\ processed' = processed
          BY <3>1, <4>1, <4>2 DEF TypeOK, datasets
        <4>. QED BY <3>1, <4>1, <4>2, <4>3 DEF TypeOK, SidesNameFetched
      <3>2. CASE \E d \in Docs : \E x \in Decayed(previous[d]) :
                    /\ previous' = [previous EXCEPT ![d] = x]
                    /\ UNCHANGED <<checkpoint, cache, datasets>>
        <4>0. PICK d \in Docs :
                 \E x \in Decayed(previous[d]) : previous' = [previous EXCEPT ![d] = x]
          BY <3>2
        <4>1. PICK x \in Decayed(previous[d]) : previous' = [previous EXCEPT ![d] = x]
          BY <4>0
        <4>2. x \in File(Bodies) /\ x.side \in Fetched \cup {Absent}
          BY <1>1, DecayedFile DEF TypeOK, SidesNameFetched
        <4>3. previous' \in [Docs -> File(Bodies)] /\ processed' = processed
          BY <3>2, <4>1, <4>2 DEF TypeOK, datasets
        <4>. QED BY <3>2, <4>1, <4>2, <4>3 DEF TypeOK, SidesNameFetched
      <3>3. CASE \E v \in Versions : \E x \in Decayed(processed[v]) :
                    /\ processed' = [processed EXCEPT ![v] = x]
                    /\ UNCHANGED <<checkpoint, cache, previous>>
        <4>. DEFINE contents == [Docs -> Bodies \cup {Absent}] \cup {Damaged}
        <4>0. PICK v \in Versions :
                 \E x \in Decayed(processed[v]) : processed' = [processed EXCEPT ![v] = x]
          BY <3>3
        <4>1. PICK x \in Decayed(processed[v]) : processed' = [processed EXCEPT ![v] = x]
          BY <4>0
        <4>2. processed \in [Versions -> File(contents)] /\ Damaged \in contents
          BY DEF TypeOK
        <4>. HIDE DEF contents
        <4>3. x \in File(contents)
          BY <4>2, DecayedFile
        <4>4. processed' \in [Versions -> File(contents)]
          BY <4>1, <4>2, <4>3
        <4>. USE DEF contents
        <4>. QED BY <3>3, <4>4 DEF TypeOK, SidesNameFetched
      <3>. QED BY <3>1, <3>2, <3>3
    <2>2. Bound' /\ Scoped' /\ Settled' /\ Unsealed' /\ ManifestTrue'
      BY DEF datasets, Bound, Scoped, Settled, DocsSettled, Verified, Unsealed, ManifestTrue, Working, Using
    <2>. QED BY <2>1, <2>2
  <1>3. CASE DamageCheckpoint
    <2>. USE <1>3 DEF stores, datasets
    <2>1. CASE manifest /\ rotten' = TRUE /\ UNCHANGED <<checkpoint, cache, previous, datasets>>
      BY <2>1 DEF checkpoint, TypeOK, SidesNameFetched, Bound, Scoped, Settled, DocsSettled,
                  Verified, Unsealed, ManifestTrue, Working, Using
    <2>2. CASE /\ ~manifest
               /\ \E d \in Docs : \E x \in Decayed(filing[d]) : filing' = [filing EXCEPT ![d] = x]
               /\ UNCHANGED <<contract, receipt, receiptSide, asset, index, manifest, stores>>
      <3>0. PICK d \in Docs : \E x \in Decayed(filing[d]) : filing' = [filing EXCEPT ![d] = x]
        BY <2>2
      <3>1. PICK x \in Decayed(filing[d]) : filing' = [filing EXCEPT ![d] = x]
        BY <3>0
      <3>2. x \in File(Bodies) /\ x.side \in Fetched \cup {Absent}
        BY <1>1, DecayedFile DEF TypeOK, SidesNameFetched
      <3>3. TypeOK' /\ SidesNameFetched'
        BY <2>2, <3>1, <3>2 DEF TypeOK, SidesNameFetched
      <3>4. Bound' /\ Scoped' /\ Settled' /\ Unsealed' /\ ManifestTrue'
        BY <2>2 DEF Bound, Scoped, Settled, Unsealed, ManifestTrue, Working, Using
      <3>. QED BY <3>3, <3>4
    <2>3. CASE /\ ~manifest
               /\ \E s \in Sources : \E x \in Decayed(asset[s]) :
                     asset[s].body # Absent /\ asset' = [asset EXCEPT ![s] = x]
               /\ UNCHANGED <<contract, receipt, receiptSide, filing, index, manifest, stores>>
      <3>0. PICK s \in Sources : \E x \in Decayed(asset[s]) :
               asset[s].body # Absent /\ asset' = [asset EXCEPT ![s] = x]
        BY <2>3
      <3>1. PICK x \in Decayed(asset[s]) :
               asset[s].body # Absent /\ asset' = [asset EXCEPT ![s] = x]
        BY <3>0
      <3>2. x \in File(Requests \cup {Damaged}) /\ x.side \in {contract, Absent}
        <4>1. asset[s] \in File(Requests \cup {Damaged}) /\ asset[s].side \in {contract, Absent}
          BY DEF TypeOK, SidesNameFetched
        <4>. QED BY <4>1, DecayedFile
      <3>3. TypeOK' /\ SidesNameFetched'
        BY <2>3, <3>1, <3>2 DEF TypeOK, SidesNameFetched
      <3>4. contract \notin {Absent, Torn}
        BY <3>1 DEF Bound, None
      <3>5. Bound' /\ Scoped' /\ Settled' /\ Unsealed' /\ ManifestTrue'
        BY <2>3, <3>4 DEF Bound, Scoped, Settled, Unsealed, ManifestTrue, Working, Using
      <3>. QED BY <3>3, <3>5
    <2>4. CASE /\ ~manifest /\ receipt # Absent /\ receiptSide' = Absent
               /\ UNCHANGED <<contract, receipt, asset, filing, index, manifest, stores>>
      BY <2>4 DEF TypeOK, SidesNameFetched, Bound, Scoped, Settled, DocsSettled, Verified,
                  Unsealed, ManifestTrue, Working, Using
    <2>. QED BY <2>1, <2>2, <2>3, <2>4 DEF DamageCheckpoint
  <1>. QED BY <1>2, <1>3

-----------------------------------------------------------------------------
LEMMA Stutter == IInv /\ UNCHANGED vars => IInv'
  <1>. SUFFICES ASSUME IInv, UNCHANGED vars PROVE IInv'
    OBVIOUS
  <1>. USE DEF IInv, vars, checkpoint, stores, datasets, command, bounds
  <1>1. TypeOK' /\ SidesNameFetched'
    BY DEF TypeOK, SidesNameFetched
  <1>2. Bound' /\ Scoped' /\ Unsealed'
    BY DEF Bound, Scoped, Unsealed, Working, Using
  <1>3. Settled' /\ ManifestTrue'
    BY DEF Settled, ManifestTrue, DocsSettled, Verified
  <1>. QED BY <1>1, <1>2, <1>3

LEMMA SeedingStep == ASSUME IInv, Seeding PROVE IInv'
  BY NoSeedingStep, ReceiptAcceptedStep, ReceiptRefusedStep, BeginSeedStep,
     PublishReceiptStep, SealReceiptStep, SeedFileStep, SeedConflictStep DEF Seeding

LEMMA FetchingStep == ASSUME IInv, Fetching PROVE IInv'
  BY BeginDocumentsStep, BeginLateStep, FinalizeStep, ReuseSourceStep, FetchSourceStep,
     SealSourceStep, SourceFailsStep, ReuseDocumentStep, FetchDocumentStep,
     SealDocumentStep, DocumentFailsStep DEF Fetching

LEMMA PromotingStep == ASSUME IInv, Promoting PROVE IInv'
  BY FinishedStep, BeginPromotionStep, PromotedStep, PromoteFileStep, PromotionConflictStep
  DEF Promoting

LEMMA StepIInv == IInv /\ [Next]_vars => IInv'
  BY StartStep, StartRefusedStep, PublishRequestStep, SeedingStep, FetchingStep,
     PromotingStep, ModellingStep, NextCycleStep, InterruptStep, DamageStep, Stutter DEF Next

LEMMA Invariance == Spec => []IInv
  BY InitIInv, StepIInv, PTL DEF Spec

-----------------------------------------------------------------------------
(* The checkpoint, its sidecars and the caches keep their types.              *)
THEOREM TypeCorrect == Spec => []TypeOK
  <1>1. IInv => TypeOK
    BY DEF IInv
  <1>. QED BY Invariance, <1>1, PTL

(* A body that matches its sidecar was served by the provider, whatever       *)
(* merges, interruptions and damage did to either file.                       *)
THEOREM VerifiedGenuine == Spec => []VerifiedIsGenuine
  <1>1. IInv => VerifiedIsGenuine
    BY DEF IInv, SidesNameFetched, VerifiedIsGenuine, Verified, Tree
  <1>. QED BY Invariance, <1>1, PTL

(* A directory's verified assets and its seeding receipt belong to the one    *)
(* request it is bound to.                                                    *)
THEOREM BoundToOneContract == Spec => []OneContract
  <1>1. IInv => OneContract
    BY DEF IInv, SidesNameFetched, Bound, OneContract, Verified
  <1>. QED BY Invariance, <1>1, PTL

(* Past its manifest no command works on the directory.                       *)
LEMMA FinalStep ==
  ASSUME IInv, [Next]_vars, manifest, cycles' = cycles
  PROVE  UNCHANGED checkpoint
  <1>1. pc \notin Working \cup {"contracting"} /\ contract \in Requests /\ cycles \in Nat
    BY DEF IInv, Bound, ManifestTrue, TypeOK
  <1>. USE DEF checkpoint
  <1>2. CASE \E q \in Requests, again \in BOOLEAN : Start(q, again) \/ StartRefused(q, again)
    BY <1>1, <1>2 DEF Start, StartRefused
  <1>3. CASE PublishRequest
    BY <1>1, <1>3 DEF PublishRequest
  <1>4. CASE Seeding
    BY <1>1, <1>4 DEF Seeding, NoSeeding, ReceiptAccepted, ReceiptRefused, BeginSeed,
       PublishReceipt, SealReceipt, SeedFile, SeedConflict, Working
  <1>5. CASE Fetching
    BY <1>1, <1>5 DEF Fetching, BeginDocuments, BeginLate, Finalize, ReuseSource, FetchSource,
       SealSource, SourceFails, ReuseDocument, FetchDocument, SealDocument, DocumentFails,
       InStage, Working
  <1>6. CASE Promoting
    BY <1>6 DEF Promoting, Finished, BeginPromotion, Promoted, PromoteFile, PromotionConflict
  <1>7. CASE NextCycle
    BY <1>1, <1>7 DEF NextCycle
  <1>8. CASE Interrupt
    BY <1>8 DEF Interrupt
  <1>9. CASE Damage
    BY <1>9 DEF Damage, DamageStored, DamageCheckpoint
  <1>11. CASE Modelling
    BY <1>11 DEF Modelling, BuildDataset, BuildRefused, SaveDataset, FindDataset, FindRefused,
       Forecast, Settle, Load, LoadRefused, Conclude
  <1>10. CASE UNCHANGED vars
    BY <1>10 DEF vars
  <1>. QED BY <1>2, <1>3, <1>4, <1>5, <1>6, <1>7, <1>8, <1>9, <1>10, <1>11 DEF Next

(* A finalized checkpoint is immutable, even on resume: past its manifest no  *)
(* command works on the directory, and promotion only reads it.               *)
THEOREM FinalImmutable == Spec => FinalIsImmutable
  <1>1. IInv /\ [Next]_vars => (manifest /\ cycles' = cycles => UNCHANGED checkpoint)
    BY FinalStep
  <1>. QED BY <1>1, Invariance, PTL DEF Spec, FinalIsImmutable

-----------------------------------------------------------------------------
(* The datasets of a checkpoint: what a manifest.json seals are the certified *)
(* bodies, and so is what a command that loads it reads.                      *)

Built ==
    /\ ~manifest => scored = {} /\ \A v \in Versions : processed[v] = None
    /\ scored \subseteq {Evidenced}
    /\ \A v \in Versions : processed[v].side \in {Absent, Evidenced}
    /\ pc \in {"saving", "found", "forecast"} => pending \subseteq Versions
    /\ pc = "saving" => \A v \in pending : processed[v].body = Evidenced

(* A step that only moves on, beside the datasets.                            *)
LEMMA BuiltKept ==
  ASSUME IInv, Built, UNCHANGED datasets, manifest => manifest' /\ UNCHANGED <<filing, index>>,
         pc' \in {"saving", "found", "forecast"} => pc' = pc /\ pending' = pending
  PROVE  Built'
  <1>1. CASE manifest
    <2>1. Evidenced' = Evidenced
      BY <1>1 DEF Evidenced
    <2>. QED BY <1>1, <2>1 DEF Built, datasets
  <1>2. CASE ~manifest
    BY <1>2 DEF Built, datasets, None, IInv, Bound, Using
  <1>. QED BY <1>1, <1>2

LEMMA BuiltStep == ASSUME IInv, IInv', Built, [Next]_vars PROVE Built'
  <1>0. cycles \in Nat /\ processed \in [Versions -> File([Docs -> Bodies \cup {Absent}] \cup {Damaged})]
    BY DEF IInv, TypeOK
  <1>1. CASE NextCycle
    BY <1>1 DEF NextCycle, Built, None
  <1>2. CASE Damage
    <2>0. UNCHANGED command /\ pc # "saving" /\ UNCHANGED cycles
      BY <1>2 DEF Damage, command
    <2>1. manifest => UNCHANGED checkpoint
      BY <2>0, FinalStep
    <2>2. CASE UNCHANGED datasets
      BY <2>0, <2>1, <2>2, <1>2, BuiltKept DEF command, checkpoint, Damage, DamageStored, DamageCheckpoint
    <2>3. CASE /\ \E v \in Versions : \E x \in Decayed(processed[v]) :
                     processed[v].body # Absent /\ processed' = [processed EXCEPT ![v] = x]
               /\ UNCHANGED <<checkpoint, rotten, cache, previous, scored>>
      <3>0. PICK v \in Versions : \E x \in Decayed(processed[v]) :
               processed[v].body # Absent /\ processed' = [processed EXCEPT ![v] = x]
        BY <2>3
      <3>1. PICK x \in Decayed(processed[v]) :
               processed[v].body # Absent /\ processed' = [processed EXCEPT ![v] = x]
        BY <3>0
      <3>2. x.side \in {processed[v].side, Absent}
        <4>1. processed[v] \in File([Docs -> Bodies \cup {Absent}] \cup {Damaged})
          BY <1>0
        <4>. QED BY <4>1, DecayedFile
      <3>3. manifest
        BY <3>1 DEF Built, None
      <3>4. Evidenced' = Evidenced /\ manifest' /\ scored' = scored
        BY <2>3, <3>3 DEF Evidenced, checkpoint
      <3>. QED BY <1>0, <2>0, <3>1, <3>2, <3>3, <3>4 DEF Built, command
    <2>. QED BY <1>2, <2>2, <2>3 DEF Damage, DamageStored, DamageCheckpoint, stores, datasets
  <1>3. CASE Modelling
    <2>0. manifest /\ UNCHANGED checkpoint /\ UNCHANGED <<manifest, filing, index>>
      BY <1>3 DEF Modelling, BuildDataset, BuildRefused, SaveDataset, FindDataset, FindRefused,
         Forecast, Settle, Load, LoadRefused, Conclude, IInv, Bound, Using, checkpoint
    <2>1. Evidenced' = Evidenced
      BY <2>0 DEF Evidenced
    <2>2. CASE \E v \in Versions : BuildDataset(v)
      <3>0. PICK v \in Versions : BuildDataset(v)
        BY <2>2
      <3>1. /\ processed' = [processed EXCEPT ![v].body = Evidenced]
            /\ pc' = "saving" /\ pending' = {v} /\ scored' = scored
        BY <3>0 DEF BuildDataset, Intact, Enter
      <3>2. /\ processed'[v].body = Evidenced
            /\ \A w \in Versions : processed'[w].side = processed[w].side
        BY <1>0, <3>1 DEF File
      <3>. QED BY <2>0, <2>1, <3>1, <3>2 DEF Built
    <2>3. CASE \E v \in Versions : SaveDataset(v)
      <3>0. PICK v \in Versions : SaveDataset(v)
        BY <2>3
      <3>1. /\ processed' = [processed EXCEPT ![v].side = Evidenced]
            /\ pc' = "saved" /\ scored' = scored
        BY <3>0 DEF SaveDataset, Enter, Built
      <3>2. \A w \in Versions : processed'[w].side \in {processed[w].side, Evidenced}
        BY <1>0, <3>1 DEF File
      <3>. QED BY <2>0, <2>1, <3>1, <3>2 DEF Built
    <2>4. CASE \E v \in Versions : Forecast(v) \/ Settle(v)
      <3>0. PICK v \in Versions : Forecast(v) \/ Settle(v)
        BY <2>4
      <3>1. /\ Verified(processed[v]) /\ scored' = scored \cup {processed[v].body}
            /\ pc \in {"found", "forecast"} /\ pc' # "saving" /\ pending' = pending
            /\ processed' = processed
        BY <3>0 DEF Forecast, Settle, Load, Enter
      <3>2. processed[v].body = Evidenced
        BY <3>1 DEF Verified, Built
      <3>. QED BY <2>0, <2>1, <3>1, <3>2 DEF Built
    <2>5. CASE \E v \in Versions : FindDataset(v)
      BY <2>0, <2>1, <2>5 DEF FindDataset, Enter, stores, datasets, Built
    <2>6. CASE FindRefused \/ Conclude \/ \E v \in Versions : BuildRefused(v) \/ LoadRefused(v)
      BY <2>0, <2>6, BuiltKept DEF FindRefused, Conclude, BuildRefused, LoadRefused, Enter, Refuse, stores
    <2>. QED BY <1>3, <2>2, <2>3, <2>4, <2>5, <2>6 DEF Modelling
  <1>4. CASE UNCHANGED vars
    BY <1>4, BuiltKept DEF vars, checkpoint, stores, command
  <1>5. ASSUME UNCHANGED datasets, UNCHANGED cycles, pc' \notin {"saving", "found", "forecast"}
        PROVE  Built'
    BY <1>5, FinalStep, BuiltKept DEF checkpoint
  <1>. USE DEF stores, bounds
  <1>6. CASE \E q \in Requests, again \in BOOLEAN : Start(q, again) \/ StartRefused(q, again)
    BY <1>5, <1>6 DEF Start, StartRefused, FirstStage
  <1>7. CASE PublishRequest \/ Interrupt
    BY <1>5, <1>7 DEF PublishRequest, Interrupt, Enter, Refuse
  <1>8. CASE Seeding
    BY <1>5, <1>8 DEF Seeding, NoSeeding, ReceiptAccepted, ReceiptRefused, BeginSeed,
       PublishReceipt, SealReceipt, SeedFile, SeedConflict, Enter, Refuse, Completed
  <1>9. CASE Fetching
    BY <1>5, <1>9 DEF Fetching, BeginDocuments, BeginLate, Finalize, ReuseSource, FetchSource,
       SealSource, SourceFails, ReuseDocument, FetchDocument, SealDocument, DocumentFails,
       Record, InStage, Enter, Refuse, Completed
  <1>10. CASE Promoting
    BY <1>5, <1>10 DEF Promoting, Finished, BeginPromotion, Promoted, PromoteFile,
       PromotionConflict, Enter, Refuse, Completed, datasets
  <1>. QED BY <1>1, <1>2, <1>3, <1>4, <1>6, <1>7, <1>8, <1>9, <1>10 DEF Next

LEMMA DatasetsBuilt == Spec => []Built
  <1>1. Init => Built
    BY DEF Init, Built, None
  <1>2. IInv /\ IInv' /\ Built /\ [Next]_vars => Built'
    BY BuiltStep
  <1>. QED BY <1>1, <1>2, Invariance, PTL DEF Spec

(* The manifest certifies only assets fetched under the directory's request   *)
(* and documents the provider served, and forecasts and settlements rest on   *)
(* those documents and no others.                                             *)
THEOREM ManifestCertifies == Spec => []Certified
  <1>1. IInv /\ Built => Certified
    BY DEF IInv, SidesNameFetched, ManifestTrue, DocsSettled, Certified, Verified, Built
  <1>. QED BY Invariance, DatasetsBuilt, <1>1, PTL

-----------------------------------------------------------------------------
(* A document's body changes only by a fetch or by seeding an empty place of  *)
(* a checkpoint that was not seeded yet.                                      *)
THEOREM SeedingNeverReplays == Spec => SeedsOnlyEmptyPlaces
  <1>. DEFINE Kept(d) == filing'[d].body # filing[d].body =>
                 \/ filing'[d].body \in Fetched /\ pc = "documents"
                 \/ filing[d].body = Absent /\ receipt = Absent
  <1>1. IInv /\ [Next]_vars =>
           (cycles' = cycles /\ damage' = damage => \A d \in Docs : Kept(d))
    <2>. SUFFICES ASSUME IInv, [Next]_vars, cycles' = cycles, damage' = damage, NEW d \in Docs
                  PROVE  Kept(d)
      OBVIOUS
    <2>1. /\ filing \in [Docs -> File(Bodies)] /\ cycles \in Nat /\ damage \in Nat
          /\ pc = "seeding" => receipt = Absent
      BY DEF IInv, TypeOK, Bound
    <2>2. CASE UNCHANGED filing
      BY <2>2
    <2>3. CASE \E f \in pending : SeedFile(f)
      <3>1. PICK f \in pending : SeedFile(f)
        BY <2>3
      <3>2. f[2] \in Docs /\ f[3] \in {"body", "side"} /\ receipt = Absent
        BY <2>1, <3>1 DEF IInv, Scoped, SeedFile
      <3>. DEFINE source == Tree(f[1])[f[2]]
      <3>3. filing' = [filing EXCEPT ![f[2]] = Linked(source, filing[f[2]], f[3])]
        BY <3>1 DEF SeedFile
      <3>. HIDE DEF source
      <3>4. CASE d # f[2]
        BY <2>1, <3>2, <3>3, <3>4
      <3>5. CASE d = f[2] /\ filing[d].body # Absent
        <4>1. Linked(source, filing[d], f[3]).body = filing[d].body
          BY <2>1, <3>2, <3>5 DEF Linked, File
        <4>. QED BY <2>1, <3>3, <3>5, <4>1
      <3>6. CASE filing[d].body = Absent
        BY <3>2, <3>6
      <3>. QED BY <3>4, <3>5, <3>6
    <2>4. CASE \E e \in Docs : FetchDocument(e) \/ SealDocument(e)
      <3>1. PICK e \in Docs : FetchDocument(e) \/ SealDocument(e)
        BY <2>4
      <3>2. CASE FetchDocument(e)
        <4>1. PICK b \in Fetched : filing' = [filing EXCEPT ![e].body = b]
          BY <3>2 DEF FetchDocument
        <4>2. pc = "documents"
          BY <3>2 DEF FetchDocument, InStage
        <4>3. filing'[d].body \in {b, filing[d].body}
          BY <2>1, <4>1 DEF File
        <4>. QED BY <4>2, <4>3
      <3>3. CASE SealDocument(e)
        <4>1. filing' = [filing EXCEPT ![e].side = filing[e].body]
          BY <3>3 DEF SealDocument
        <4>2. filing'[d].body = filing[d].body
          BY <2>1, <4>1 DEF File
        <4>. QED BY <4>2
      <3>. QED BY <3>1, <3>2, <3>3
    <2>5. CASE NextCycle \/ Damage
      BY <2>1, <2>5 DEF NextCycle, Damage
    <2>6. \/ UNCHANGED filing
          \/ \E f \in pending : SeedFile(f)
          \/ \E e \in Docs : FetchDocument(e) \/ SealDocument(e)
          \/ NextCycle \/ Damage
      <3>. USE DEF checkpoint
      <3>1. CASE \E q \in Requests, again \in BOOLEAN : Start(q, again) \/ StartRefused(q, again)
        BY <3>1 DEF Start, StartRefused
      <3>2. CASE PublishRequest \/ Interrupt \/ UNCHANGED vars
        BY <3>2 DEF PublishRequest, Interrupt, vars
      <3>3. CASE Seeding
        BY <3>3 DEF Seeding, NoSeeding, ReceiptAccepted, ReceiptRefused, BeginSeed,
           PublishReceipt, SealReceipt, SeedConflict
      <3>4. CASE Fetching
        BY <3>4 DEF Fetching, BeginDocuments, BeginLate, Finalize, ReuseSource, FetchSource,
           SealSource, SourceFails, ReuseDocument, DocumentFails
      <3>5. CASE Promoting
        BY <3>5 DEF Promoting, Finished, BeginPromotion, Promoted, PromoteFile, PromotionConflict
      <3>6. CASE Modelling
        BY <3>6 DEF Modelling, BuildDataset, BuildRefused, SaveDataset, FindDataset, FindRefused,
           Forecast, Settle, Load, LoadRefused, Conclude
      <3>. QED BY <3>1, <3>2, <3>3, <3>4, <3>5, <3>6 DEF Next
    <2>. QED BY <2>2, <2>3, <2>4, <2>5, <2>6
  <1>. QED BY <1>1, Invariance, PTL DEF Spec, SeedsOnlyEmptyPlaces

HIDE NamesAssumption

-----------------------------------------------------------------------------
(* The evidence after its run: the writer, the repair and the audit.          *)

Steps == {"idle", "put", "mirror", "refer", "partial", "complete", "failing", "done"}
Written == {"mirror", "refer", "partial", "complete", "failing"}

Issues == {"unsupported_primary_uri", "missing_local_object", "invalid_local_object",
           "mirror_write_failed"}
Findings == {"missing_object", "hash_mismatch", "object_read_failed", "failed_run", "stale_run",
             "missing_batch_evidence"}

WriterType ==
  /\ evidenceNow \in Nat /\ faults \in Nat
  /\ status \in [Runs -> Evidence!Statuses] /\ started \in [Runs -> Nat]
  /\ step \in [Runs -> Steps] /\ at \in [Runs -> Hosts \cup {NoHost}]
  /\ direct \subseteq Runs /\ refs \subseteq Runs /\ faulty \subseteq Runs
  /\ local \in [Hosts -> [Runs -> Evidence!Contents \ {"foreign"}]]
  /\ mirror \in [Runs -> Evidence!Contents]

RecType ==
  rec \in [pc : {"idle", "busy", "passed", "failed"}, host : Hosts \cup {NoHost}, repair : BOOLEAN,
           listed : SUBSET refs, todo : SUBSET Runs, holding : SUBSET Runs,
           bytes : Evidence!Contents, issues : SUBSET (Runs \X Issues)]

AudType ==
  aud \in [pc : {"idle", "busy", "passed", "findings", "incomplete"}, status : [Runs -> Evidence!Statuses],
           at : Nat, listed : SUBSET refs, todo : SUBSET Runs,
           findings : SUBSET (Runs \X Findings), spoiled : SUBSET Runs]

(* A copy that neither program damaged is absent or right; the writer         *)
(* references what it has stored.                                             *)
Stored(o) == mirror[o] = "good" \/ o \in faulty

WriterOK ==
  \A o \in Runs :
    /\ mirror[o] \in {"absent", "good"} \/ o \in faulty
    /\ \A h \in Hosts : local[h][o] \in {"absent", "good"} \/ o \in faulty
    /\ o \in refs => step[o] \in {"complete", "failing", "done"}
    /\ (o \notin direct /\ (step[o] \in Written \/ o \in refs)) =>
         at[o] \in Hosts /\ (local[at[o]][o] = "good" \/ o \in faulty)
    /\ step[o] \in {"put", "mirror"} => at[o] \in Hosts
    /\ step[o] \in {"refer", "complete"} => Stored(o)
    /\ step[o] = "complete" => o \in refs
    /\ status[o] = "succeeded" => step[o] = "done" /\ o \in refs /\ Stored(o)

(* What the repair has settled is in the mirror or an issue, and each issue   *)
(* has a cause.                                                               *)
RecOK ==
  /\ rec.todo \cup rec.holding \subseteq rec.listed
  /\ rec.holding # {} => rec.pc = "busy" /\ rec.bytes = "good"
  /\ \A o, p \in rec.holding : o = p
  /\ rec.pc = "busy" => rec.host \in Hosts
  /\ rec.pc = "passed" => rec.issues = {} /\ rec.todo = {} /\ rec.holding = {}
  /\ rec.repair => \A o \in rec.listed \ (rec.todo \cup rec.holding) :
       Stored(o) \/ \E c \in Issues : <<o, c>> \in rec.issues
  /\ \A i \in rec.issues :
       /\ i[1] \in rec.listed
       /\ i[1] \in direct \/ at[i[1]] # rec.host \/ i[1] \in faulty \/ faults > 0

(* The audit has a finding for what was not right when it looked.             *)
AudOK ==
  /\ aud.todo \subseteq aud.listed
  /\ \A o \in Runs : aud.status[o] = "succeeded" => status[o] = "succeeded" /\ o \in aud.listed
  /\ aud.pc = "passed" => aud.findings = {} /\ aud.todo = {}
  /\ \A o \in aud.listed \ aud.todo :
       mirror[o] = "good" \/ o \in aud.spoiled \/ \E c \in Findings : <<o, c>> \in aud.findings
  /\ \A f \in aud.findings :
       f[2] \in {"missing_object", "hash_mismatch", "missing_batch_evidence"} =>
         aud.status[f[1]] # "succeeded" \/ f[1] \in faulty

RepairInv == WriterType /\ RecType /\ AudType /\ WriterOK /\ RecOK /\ AudOK

LEMMA RepairInit == Evidence!Init => RepairInv
  <1>. SUFFICES ASSUME Evidence!Init PROVE RepairInv
    OBVIOUS
  <1>. USE DEF Evidence!Init
  <1>1. WriterType
    BY DEF WriterType, Steps, Evidence!Statuses, Evidence!Contents
  <1>2. RecType
    BY DEF RecType, Evidence!IdleRec, Evidence!Contents
  <1>3. AudType
    BY DEF AudType, Evidence!IdleAud, Evidence!Statuses
  <1>4. WriterOK
    BY DEF WriterOK, Written
  <1>5. RecOK
    BY DEF RecOK, Evidence!IdleRec
  <1>6. AudOK
    BY DEF AudOK, Evidence!IdleAud
  <1>. QED
    BY <1>1, <1>2, <1>3, <1>4, <1>5, <1>6 DEF RepairInv

(* What holds of a reconciliation or an audit that a step of another actor    *)
(* leaves alone: references, damage and causes only grow, and an object that  *)
(* is right stays so unless it is damaged.                                    *)
Grows ==
  /\ refs \subseteq refs' /\ direct \subseteq direct' /\ faulty \subseteq faulty' /\ faults' >= faults
  /\ \A o \in Runs : /\ o \in refs => at'[o] = at[o]
                     /\ status[o] = "succeeded" => status'[o] = "succeeded"
                     /\ mirror[o] = "good" => mirror'[o] = "good" \/ (o \in faulty' /\ o \in aud'.spoiled)

LEMMA RecUntouched ==
  ASSUME RepairInv, Grows, WriterType', UNCHANGED rec
  PROVE  RecType' /\ RecOK'
  <1>1. RecType'
    BY DEF RepairInv, Grows, RecType
  <1>2. faults' \in Nat /\ faults \in Nat
    BY DEF RepairInv, WriterType
  <1>3. rec.listed \subseteq refs /\ rec.issues \subseteq Runs \X Issues /\ refs \subseteq Runs
    BY DEF RepairInv, RecType, WriterType
  <1>4. ASSUME NEW o \in Runs, Stored(o) PROVE Stored(o)'
    BY <1>4 DEF Grows, Stored
  <1>5. ASSUME NEW i \in rec.issues
        PROVE  i[1] \in direct' \/ at'[i[1]] # rec.host \/ i[1] \in faulty' \/ faults' > 0
    <2>1. i[1] \in Runs /\ i[1] \in refs
      BY <1>3 DEF RepairInv, RecOK
    <2>2. i[1] \in direct \/ at[i[1]] # rec.host \/ i[1] \in faulty \/ faults > 0
      BY DEF RepairInv, RecOK
    <2>. QED
      BY <1>2, <2>1, <2>2 DEF Grows
  <1>6. RecOK'
    BY <1>3, <1>4, <1>5 DEF RepairInv, RecOK
  <1>. QED
    BY <1>1, <1>6

LEMMA AudUntouched ==
  ASSUME RepairInv, Grows, WriterType',
         aud' = aud \/ \E S \in SUBSET Runs : aud' = [aud EXCEPT !.spoiled = @ \cup S]
  PROVE  AudType' /\ AudOK'
  <1>1. PICK S \in SUBSET Runs : aud' = aud \/ aud' = [aud EXCEPT !.spoiled = @ \cup S]
    OBVIOUS
  <1>2. /\ AudType' /\ aud'.pc = aud.pc /\ aud'.status = aud.status /\ aud'.listed = aud.listed
        /\ aud'.todo = aud.todo /\ aud'.findings = aud.findings /\ aud.spoiled \subseteq aud'.spoiled
    BY <1>1 DEF RepairInv, Grows, AudType
  <1>3. aud.listed \subseteq Runs /\ aud.findings \subseteq Runs \X Findings
    BY DEF RepairInv, AudType, WriterType
  <1>4. AudOK'
    BY <1>2, <1>3 DEF RepairInv, Grows, AudOK
  <1>. QED
    BY <1>2, <1>4

-----------------------------------------------------------------------------
(* The writer.                                                                *)

LEMMA RunStarts ==
  ASSUME RepairInv, NEW r \in Runs, NEW h \in Hosts, NEW alone \in BOOLEAN, Evidence!Start(r, h, alone)
  PROVE  RepairInv'
  <1>. USE DEF RepairInv, Evidence!Start
  <1>1. WriterType'
    BY EvidenceAssumption DEF WriterType, Steps, Evidence!Statuses
  <1>2. WriterOK'
    BY DEF WriterType, WriterOK, Written, Stored
  <1>3. Grows
    BY DEF Grows, WriterType, WriterOK, Written, Evidence!Put, Evidence!PutBytes
  <1>. QED
    BY <1>1, <1>2, <1>3, RecUntouched, AudUntouched

LEMMA PutsLocal ==
  ASSUME RepairInv, NEW r \in Runs, Evidence!PutLocal(r)
  PROVE  RepairInv'
  <1>. USE DEF RepairInv, Evidence!PutLocal
  <1>1. WriterType'
    BY EvidenceAssumption DEF WriterType, WriterOK, Steps, Evidence!Put, Evidence!PutBytes, Evidence!Contents
  <1>2. WriterOK'
    <2>1. at[r] \in Hosts /\ mirror' = mirror /\ status[r] # "succeeded" /\ r \notin refs
      BY DEF WriterOK
    <2>2. \A h \in Hosts, o \in Runs :
             local'[h][o] = local[h][o] \/ (o = r /\ local'[h][o] = Evidence!Put(local[h][o]))
      BY DEF WriterType, Evidence!Put, Evidence!PutBytes
    <2>3. local'[at[r]][r] = "good" \/ r \in faulty
      BY <2>1 DEF WriterType, WriterOK, Evidence!Put, Evidence!PutBytes
    <2>4. \A h \in Hosts, o \in Runs :
             /\ local[h][o] = "good" => local'[h][o] = "good"
             /\ local'[h][o] \in {"absent", "good"} \/ o \in faulty
      BY <2>1, <2>2 DEF WriterOK, Evidence!Put, Evidence!PutBytes
    <2>. QED
      BY <2>1, <2>3, <2>4 DEF WriterType, WriterOK, Written, Stored
  <1>3. Grows
    BY DEF Grows, WriterType, WriterOK, Written, Evidence!Put, Evidence!PutBytes
  <1>. QED
    BY <1>1, <1>2, <1>3, RecUntouched, AudUntouched

LEMMA PutsMirror ==
  ASSUME RepairInv, NEW r \in Runs, Evidence!PutMirror(r)
  PROVE  RepairInv'
  <1>. USE DEF RepairInv, Evidence!PutMirror
  <1>1. WriterType'
    BY EvidenceAssumption DEF WriterType, Steps, Evidence!Put, Evidence!PutBytes, Evidence!Contents
  <1>2. WriterOK'
    BY DEF WriterType, WriterOK, Written, Stored, Evidence!Put, Evidence!PutBytes
  <1>3. Grows
    BY DEF Grows, WriterType, WriterOK, Written, Evidence!Put, Evidence!PutBytes
  <1>. QED
    BY <1>1, <1>2, <1>3, RecUntouched, AudUntouched

LEMMA MirrorFailing ==
  ASSUME RepairInv, NEW r \in Runs, Evidence!MirrorFails(r)
  PROVE  RepairInv'
  <1>. USE DEF RepairInv, Evidence!MirrorFails
  <1>0. /\ mirror' = mirror \/ mirror' = [mirror EXCEPT ![r] = Evidence!Put(mirror[r])]
        /\ faults' \in Nat /\ faults' >= faults
    BY DEF WriterType, Evidence!Fault, Evidence!MirrorAfterFault, Evidence!Put
  <1>1. WriterType'
    BY <1>0 DEF WriterType, Steps, Evidence!Put, Evidence!PutBytes, Evidence!Contents
  <1>2. WriterOK'
    BY <1>0 DEF WriterType, WriterOK, Written, Stored, Evidence!Put, Evidence!PutBytes
  <1>3. Grows
    BY <1>0 DEF Grows, WriterType, WriterOK, Written, Evidence!Put, Evidence!PutBytes
  <1>. QED
    BY <1>1, <1>2, <1>3, RecUntouched, AudUntouched

LEMMA Refers ==
  ASSUME RepairInv, NEW r \in Runs, Evidence!Refer(r)
  PROVE  RepairInv'
  <1>. USE DEF RepairInv, Evidence!Refer
  <1>1. WriterType'
    BY EvidenceAssumption DEF WriterType, Steps
  <1>2. WriterOK'
    BY DEF WriterType, WriterOK, Written, Stored
  <1>3. Grows
    BY DEF Grows, WriterType, WriterOK, Written
  <1>. QED
    BY <1>1, <1>2, <1>3, RecUntouched, AudUntouched

LEMMA Ends ==
  ASSUME RepairInv, NEW r \in Runs, Evidence!Outcome(r)
  PROVE  RepairInv'
  <1>. USE DEF RepairInv, Evidence!Outcome
  <1>1. WriterType'
    BY EvidenceAssumption DEF WriterType, Steps, Evidence!Statuses
  <1>2. WriterOK'
    BY DEF WriterType, WriterOK, Written, Stored
  <1>3. Grows
    BY DEF Grows, WriterType, WriterOK, Written
  <1>. QED
    BY <1>1, <1>2, <1>3, RecUntouched, AudUntouched

LEMMA Crashes ==
  ASSUME RepairInv, NEW r \in Runs, Evidence!Crash(r)
  PROVE  RepairInv'
  <1>. USE DEF RepairInv, Evidence!Crash
  <1>1. WriterType'
    BY EvidenceAssumption DEF WriterType, Steps, Evidence!Fault
  <1>2. WriterOK'
    BY DEF WriterType, WriterOK, Written, Stored
  <1>3. Grows
    BY DEF Grows, WriterType, WriterOK, Written, Evidence!Fault
  <1>. QED
    BY <1>1, <1>2, <1>3, RecUntouched, AudUntouched

LEMMA Ticks ==
  ASSUME RepairInv, Evidence!Tick
  PROVE  RepairInv'
  <1>. USE DEF RepairInv, Evidence!Tick
  <1>1. WriterType'
    BY DEF WriterType, Steps, Evidence!writer
  <1>2. WriterOK'
    BY DEF WriterType, WriterOK, Written, Stored, Evidence!writer
  <1>3. Grows
    BY DEF Grows, WriterType, WriterOK, Written, Evidence!writer
  <1>. QED
    BY <1>1, <1>2, <1>3, RecUntouched, AudUntouched

-----------------------------------------------------------------------------
(* The repair.                                                                *)

LEMMA WriterUntouched ==
  ASSUME RepairInv, UNCHANGED <<evidenceNow, status, started, step, at, direct, refs, local, mirror,
                                faulty>>,
         faults' \in Nat, faults' >= faults
  PROVE  WriterType' /\ WriterOK' /\ Grows
  <1>1. WriterType'
    BY DEF RepairInv, WriterType
  <1>2. WriterOK'
    BY DEF RepairInv, WriterOK, Stored
  <1>3. Grows
    BY DEF Grows
  <1>. QED
    BY <1>1, <1>2, <1>3

LEMMA RepairBegins ==
  ASSUME RepairInv, NEW h \in Hosts, NEW repair \in BOOLEAN, Evidence!BeginReconcile(h, repair)
  PROVE  RepairInv'
  <1>1. WriterType' /\ WriterOK' /\ Grows
    BY WriterUntouched DEF Evidence!BeginReconcile, RepairInv, WriterType, Evidence!writer
  <1>2. rec' = [pc |-> "busy", host |-> h, repair |-> repair, listed |-> refs, todo |-> refs,
                holding |-> {}, bytes |-> "good", issues |-> {}]
    BY DEF Evidence!BeginReconcile, Evidence!IdleRec
  <1>3. refs' = refs
    BY DEF Evidence!BeginReconcile, Evidence!writer
  <1>4. RecType'
    BY <1>1, <1>2, <1>3 DEF RecType, WriterType, Evidence!Contents
  <1>5. /\ rec'.pc = "busy" /\ rec'.host = h /\ rec'.listed = refs /\ rec'.todo = refs
        /\ rec'.holding = {} /\ rec'.issues = {}
    BY <1>2
  <1>6. RecOK'
    BY <1>5 DEF RecOK
  <1>. QED
    BY <1>1, <1>4, <1>6, AudUntouched DEF RepairInv, Evidence!BeginReconcile

LEMMA LocalChecked ==
  ASSUME RepairInv, NEW o \in Runs, Evidence!CheckLocal(o)
  PROVE  RepairInv'
  <1>. DEFINE copy == local[rec.host][o]
              code == IF o \in direct THEN {"unsupported_primary_uri"}
                      ELSE IF copy = "absent" THEN {"missing_local_object"}
                      ELSE IF copy = "bad" THEN {"invalid_local_object"} ELSE {}
  <1>1. WriterType' /\ WriterOK' /\ Grows /\ refs' = refs
    BY WriterUntouched DEF Evidence!CheckLocal, RepairInv, WriterType, Evidence!writer
  <1>2. /\ rec' = [rec EXCEPT !.todo = @ \ {o}, !.issues = @ \cup ({o} \X code),
                               !.holding = IF code = {} /\ rec.repair THEN {o} ELSE {},
                               !.bytes = copy]
        /\ rec.pc = "busy" /\ rec.holding = {} /\ o \in rec.todo
    BY DEF Evidence!CheckLocal
  <1>3. copy \in Evidence!Contents \ {"foreign"} /\ rec.host \in Hosts
    BY <1>2 DEF RepairInv, WriterType, RecOK
  <1>4. code \subseteq Issues /\ (code = {} => copy = "good" /\ o \notin direct)
    BY <1>3 DEF Issues, Evidence!Contents
  <1>5. o \in rec.listed /\ o \in refs /\ rec.listed \subseteq refs
    BY <1>2 DEF RepairInv, RecType, RecOK
  <1>6. o \in direct \/ at[o] # rec.host \/ copy = "good" \/ o \in faulty
    BY <1>5 DEF RepairInv, WriterOK
  <1>. HIDE DEF copy, code
  <1>7. /\ RecType'
        /\ rec'.pc = rec.pc /\ rec'.host = rec.host /\ rec'.repair = rec.repair
        /\ rec'.listed = rec.listed /\ rec'.todo = rec.todo \ {o} /\ rec'.bytes = copy
        /\ rec'.issues = rec.issues \cup ({o} \X code)
        /\ rec'.holding = IF code = {} /\ rec.repair THEN {o} ELSE {}
    <2>1. /\ rec \in [pc : {"idle", "busy", "passed", "failed"}, host : Hosts \cup {NoHost},
                      repair : BOOLEAN, listed : SUBSET refs, todo : SUBSET Runs,
                      holding : SUBSET Runs, bytes : Evidence!Contents,
                      issues : SUBSET (Runs \X Issues)]
          /\ {o} \X code \in SUBSET (Runs \X Issues) /\ copy \in Evidence!Contents
      BY <1>3, <1>4 DEF RepairInv, RecType
    <2>. QED
      BY <1>1, <1>2, <2>1 DEF RecType
  <1>8. UNCHANGED <<mirror, faults, at, direct, faulty>>
    BY DEF Evidence!CheckLocal, Evidence!writer
  <1>9. ASSUME NEW i \in rec'.issues
        PROVE  /\ i[1] \in rec.listed
               /\ i[1] \in direct \/ at[i[1]] # rec.host \/ i[1] \in faulty \/ faults > 0
    <2>1. CASE i \in rec.issues
      BY <2>1 DEF RepairInv, RecOK
    <2>2. CASE i \in {o} \X code
      <3>1. i[1] = o /\ code # {}
        BY <2>2
      <3>2. o \in direct \/ copy # "good"
        BY <3>1 DEF code
      <3>. QED
        BY <1>5, <1>6, <3>1, <3>2
    <2>. QED
      BY <1>7, <2>1, <2>2
  <1>10. ASSUME rec.repair, NEW p \in rec.listed \ (rec'.todo \cup rec'.holding)
         PROVE  Stored(p) \/ \E c \in Issues : <<p, c>> \in rec'.issues
    <2>1. CASE p = o
      <3>1. code # {}
        BY <1>7, <1>10, <2>1
      <3>2. PICK c \in code : TRUE
        BY <3>1
      <3>. QED
        BY <1>4, <1>7, <2>1, <3>2
    <2>2. CASE p # o
      BY <1>2, <1>7, <1>10, <2>2 DEF RepairInv, RecOK
    <2>. QED
      BY <2>1, <2>2
  <1>11. RecOK'
    <2>1. (rec.todo \cup rec.holding \subseteq rec.listed) /\ rec.host \in Hosts
      BY <1>3 DEF RepairInv, RecOK
    <2>3. /\ rec'.todo \cup rec'.holding \subseteq rec'.listed
          /\ rec'.holding # {} => rec'.pc = "busy" /\ rec'.bytes = "good"
          /\ \A p, q \in rec'.holding : p = q
          /\ rec'.pc = "busy" /\ rec'.host \in Hosts
      BY <1>2, <1>4, <1>5, <1>7, <2>1
    <2>4. rec'.repair => \A p \in rec'.listed \ (rec'.todo \cup rec'.holding) :
            Stored(p)' \/ \E c \in Issues : <<p, c>> \in rec'.issues
      BY <1>7, <1>8, <1>10 DEF Stored
    <2>5. \A i \in rec'.issues :
            /\ i[1] \in rec'.listed
            /\ i[1] \in direct' \/ at'[i[1]] # rec'.host \/ i[1] \in faulty' \/ faults' > 0
      BY <1>7, <1>8, <1>9
    <2>. QED
      BY <2>3, <2>4, <2>5 DEF RecOK
  <1>. QED
    BY <1>1, <1>7, <1>11, AudUntouched DEF RepairInv, Evidence!CheckLocal

LEMMA MirrorRepaired ==
  ASSUME RepairInv, NEW o \in Runs, Evidence!RepairMirror(o)
  PROVE  RepairInv'
  <1>1. rec.pc = "busy" /\ rec.bytes = "good" /\ o \in rec.listed /\ o \in rec.holding
    BY DEF Evidence!RepairMirror, RepairInv, RecOK
  <1>2. /\ mirror' = mirror \/ mirror' = [mirror EXCEPT ![o] = Evidence!Put(mirror[o])]
        /\ faults' \in Nat /\ faults' >= faults
        /\ UNCHANGED <<evidenceNow, status, started, step, at, direct, refs, local, aud, faulty>>
    BY <1>1 DEF Evidence!RepairMirror, RepairInv, WriterType, Evidence!writer, Evidence!Fault, Evidence!MirrorAfterFault,
                Evidence!Put
  <1>3. \/ /\ Stored(o)' /\ rec' = [rec EXCEPT !.holding = {}]
        \/ /\ faults' > 0 \/ o \in faulty
           /\ rec' = [rec EXCEPT !.holding = {}, !.issues = @ \cup {<<o, "mirror_write_failed">>}]
    <2>1. CASE mirror' = [mirror EXCEPT ![o] = Evidence!PutBytes(@, rec.bytes)]
               /\ rec' = [rec EXCEPT !.holding = {}]
      BY <1>1, <1>2, <2>1 DEF RepairInv, WriterType, WriterOK, Stored, Evidence!PutBytes
    <2>2. Evidence!Fault => faults' > 0
      BY DEF RepairInv, WriterType, Evidence!Fault
    <2>3. ~Evidence!Accepts(mirror[o]) => o \in faulty
      BY DEF RepairInv, WriterOK, Evidence!Accepts
    <2>. QED
      BY <2>1, <2>2, <2>3 DEF Evidence!RepairMirror
  <1>4. WriterType'
    BY <1>2 DEF RepairInv, WriterType, Evidence!Put, Evidence!PutBytes, Evidence!Contents
  <1>5. WriterOK'
    BY <1>2 DEF RepairInv, WriterType, WriterOK, Stored, Evidence!Put, Evidence!PutBytes
  <1>6. Grows
    BY <1>2 DEF RepairInv, WriterType, Grows, Evidence!Put, Evidence!PutBytes
  <1>7. PICK new \in {{}, {<<o, "mirror_write_failed">>}} :
          /\ rec' = [rec EXCEPT !.holding = {}, !.issues = @ \cup new]
          /\ Stored(o)' \/ <<o, "mirror_write_failed">> \in new
          /\ new # {} => faults' > 0 \/ o \in faulty
    <2>1. rec.issues \cup {} = rec.issues
      OBVIOUS
    <2>. QED
      BY <1>3, <2>1 DEF RepairInv, RecType
  <1>8. /\ RecType'
        /\ rec'.pc = rec.pc /\ rec'.host = rec.host /\ rec'.repair = rec.repair
        /\ rec'.listed = rec.listed /\ rec'.todo = rec.todo /\ rec'.holding = {}
        /\ rec'.issues = rec.issues \cup new
    <2>1. new \subseteq Runs \X Issues
      BY DEF Issues
    <2>. QED
      BY <1>2, <1>7, <2>1 DEF RepairInv, RecType
  <1>9. /\ \A p \in Runs : Stored(p) => Stored(p)'
        /\ \A i \in rec.issues : i[1] \in rec.listed
        /\ \A i \in rec.issues :
             i[1] \in direct \/ at[i[1]] # rec.host \/ i[1] \in faulty \/ faults' > 0
        /\ rec.todo \subseteq rec.listed /\ rec.host \in Hosts
        /\ rec.repair => \A p \in rec.listed \ (rec.todo \cup rec.holding) :
             Stored(p) \/ \E c \in Issues : <<p, c>> \in rec.issues
        /\ rec.holding \subseteq {o}
    <2>1. \A p \in Runs : Stored(p) => Stored(p)'
      BY <1>2, <1>6 DEF Grows, Stored
    <2>2. faults \in Nat /\ rec.issues \subseteq Runs \X Issues
      BY DEF RepairInv, WriterType, RecType
    <2>3. ASSUME NEW i \in rec.issues
          PROVE  /\ i[1] \in rec.listed
                 /\ i[1] \in direct \/ at[i[1]] # rec.host \/ i[1] \in faulty \/ faults' > 0
      <3>1. faults > 0 => faults' > 0
        BY <1>2, <2>2
      <3>. QED
        BY <3>1 DEF RepairInv, RecOK
    <2>4. /\ rec.todo \subseteq rec.listed /\ rec.host \in Hosts /\ rec.holding \subseteq {o}
          /\ rec.repair => \A p \in rec.listed \ (rec.todo \cup rec.holding) :
             Stored(p) \/ \E c \in Issues : <<p, c>> \in rec.issues
      BY <1>1 DEF RepairInv, RecOK
    <2>. QED
      BY <2>1, <2>3, <2>4
  <1>10. RecOK'
    <2>1. rec'.repair => \A p \in rec'.listed \ (rec'.todo \cup rec'.holding) :
            Stored(p)' \/ \E c \in Issues : <<p, c>> \in rec'.issues
      <3>1. rec.listed \subseteq Runs /\ "mirror_write_failed" \in Issues
        BY DEF RepairInv, WriterType, RecType, Issues
      <3>2. ASSUME rec.repair, NEW p \in rec.listed \ rec.todo
            PROVE  Stored(p)' \/ \E c \in Issues : <<p, c>> \in rec.issues \cup new
        <4>1. CASE p = o
          BY <1>7, <3>1, <4>1
        <4>2. CASE p # o
          BY <1>9, <3>1, <3>2, <4>2
        <4>. QED
          BY <4>1, <4>2
      <3>. QED
        BY <1>8, <3>2
    <2>2. \A i \in rec'.issues :
            /\ i[1] \in rec'.listed
            /\ i[1] \in direct' \/ at'[i[1]] # rec'.host \/ i[1] \in faulty' \/ faults' > 0
      <3>1. \A i \in new : i[1] = o
        OBVIOUS
      <3>. QED
        BY <1>1, <1>2, <1>7, <1>8, <1>9, <3>1
    <2>. QED
      BY <1>1, <1>8, <1>9, <2>1, <2>2 DEF RecOK
  <1>. QED
    BY <1>4, <1>5, <1>6, <1>8, <1>10, AudUntouched, <1>2 DEF RepairInv

LEMMA RepairReports == ASSUME RepairInv, Evidence!Report PROVE RepairInv'
  <1>. USE DEF Evidence!Report
  <1>1. WriterType' /\ WriterOK' /\ Grows
    BY WriterUntouched DEF RepairInv, WriterType, Evidence!writer
  <1>2. refs' = refs /\ UNCHANGED <<mirror, faults, at, direct, faulty>>
    BY DEF Evidence!writer
  <1>3. /\ RecType' /\ rec'.host = rec.host /\ rec'.repair = rec.repair /\ rec'.listed = rec.listed
        /\ rec'.todo = {} /\ rec'.holding = {} /\ rec'.issues = rec.issues /\ rec'.pc # "busy"
        /\ rec'.pc = "passed" => rec.issues = {}
    BY <1>2 DEF RepairInv, RecType
  <1>4. RecOK'
    BY <1>2, <1>3 DEF RepairInv, RecOK, Stored
  <1>. QED
    BY <1>1, <1>3, <1>4, AudUntouched DEF RepairInv

-----------------------------------------------------------------------------
(* The audit, which changes nothing but what it knows.                        *)

LEMMA SnapshotLoaded == ASSUME RepairInv, Evidence!LoadSnapshot PROVE RepairInv'
  <1>1. /\ UNCHANGED <<evidenceNow, status, started, step, at, direct, refs, local, mirror, faulty, rec>>
        /\ faults' \in Nat /\ faults' >= faults
    BY DEF Evidence!LoadSnapshot, RepairInv, WriterType, Evidence!writer
  <1>2. WriterType' /\ WriterOK' /\ Grows
    BY <1>1, WriterUntouched
  <1>3. aud' = [pc |-> "busy", status |-> status, at |-> evidenceNow, listed |-> refs, todo |-> refs,
                findings |-> {}, spoiled |-> {}]
    BY DEF Evidence!LoadSnapshot, Evidence!IdleAud
  <1>4. AudType'
    BY <1>1, <1>3 DEF AudType, RepairInv, WriterType
  <1>5. /\ aud'.pc = "busy" /\ aud'.status = status /\ aud'.listed = refs /\ aud'.todo = refs
        /\ aud'.findings = {}
    BY <1>3
  <1>6. AudOK'
    BY <1>1, <1>5 DEF AudOK, RepairInv, WriterOK
  <1>. QED
    BY <1>1, <1>2, <1>4, <1>6, RecUntouched DEF RepairInv

LEMMA FindingsAdded ==
  ASSUME RepairInv, NEW todo \in SUBSET Runs, NEW new \in SUBSET (Runs \X Findings),
         NEW pc0 \in {"busy", "passed", "findings", "incomplete"},
         aud' = [aud EXCEPT !.todo = todo, !.findings = @ \cup new, !.pc = pc0],
         UNCHANGED <<evidenceNow, status, started, step, at, direct, refs, local, mirror, faulty, rec>>,
         faults' \in Nat, faults' >= faults,
         todo \subseteq aud.todo,
         pc0 = "passed" => todo = {} /\ aud.findings \cup new = {},
         \A o \in aud.todo \ todo : mirror[o] = "good" \/ \E c \in Findings : <<o, c>> \in new,
         \A f \in new : f[2] \in {"missing_object", "hash_mismatch", "missing_batch_evidence"} =>
           aud.status[f[1]] # "succeeded" \/ f[1] \in faulty
  PROVE  RepairInv'
  <1>1. WriterType' /\ WriterOK' /\ Grows
    BY WriterUntouched
  <1>2. /\ AudType' /\ aud'.pc = pc0 /\ aud'.status = aud.status /\ aud'.listed = aud.listed
        /\ aud'.todo = todo /\ aud'.findings = aud.findings \cup new /\ aud'.spoiled = aud.spoiled
    BY DEF RepairInv, AudType
  <1>3. AudOK'
    <2>1. \A o \in aud'.listed \ aud'.todo :
            mirror[o] = "good" \/ o \in aud'.spoiled \/ \E c \in Findings : <<o, c>> \in aud'.findings
      BY <1>2 DEF RepairInv, AudOK
    <2>2. \A f \in aud'.findings :
            f[2] \in {"missing_object", "hash_mismatch", "missing_batch_evidence"} =>
              aud.status[f[1]] # "succeeded" \/ f[1] \in faulty
      BY <1>2 DEF RepairInv, AudOK
    <2>. QED
      BY <1>2, <2>1, <2>2 DEF RepairInv, AudOK
  <1>. QED
    BY <1>1, <1>2, <1>3, RecUntouched DEF RepairInv

LEMMA Inspected == ASSUME RepairInv, NEW o \in Runs, Evidence!Inspect(o) PROVE RepairInv'
  <1>1. /\ UNCHANGED <<evidenceNow, status, started, step, at, direct, refs, local, mirror, faulty, rec>>
        /\ faults' \in Nat /\ faults' >= faults /\ aud.pc = "busy" /\ o \in aud.todo
    BY DEF Evidence!Inspect, Evidence!Fault, RepairInv, WriterType, Evidence!writer
  <1>2. PICK new \in SUBSET ({o} \X Findings) :
          /\ aud' = [aud EXCEPT !.todo = @ \ {o}, !.findings = @ \cup new]
          /\ \/ new = {<<o, "object_read_failed">>}
             \/ new = IF mirror[o] = "absent" THEN {<<o, "missing_object">>}
                      ELSE IF mirror[o] = "good" THEN {} ELSE {<<o, "hash_mismatch">>}
    <2>1. {{}, {<<o, "missing_object">>}, {<<o, "hash_mismatch">>}, {<<o, "object_read_failed">>}}
            \subseteq SUBSET ({o} \X Findings)
      BY DEF Findings
    <2>. QED
      BY <2>1 DEF Evidence!Inspect
  <1>3. aud' = [aud EXCEPT !.todo = aud.todo \ {o}, !.findings = @ \cup new, !.pc = "busy"]
    BY <1>1, <1>2 DEF RepairInv, AudType
  <1>4. mirror[o] = "good" \/ \E c \in Findings : <<o, c>> \in new
    BY <1>2 DEF Findings
  <1>5. \A f \in new : f[2] \in {"missing_object", "hash_mismatch", "missing_batch_evidence"} =>
           aud.status[f[1]] # "succeeded" \/ f[1] \in faulty
    <2>1. aud.status[o] # "succeeded" \/ mirror[o] = "good" \/ o \in faulty
      BY DEF RepairInv, AudOK, WriterOK, Stored
    <2>. QED
      BY <1>2, <2>1
  <1>6. new \in SUBSET (Runs \X Findings) /\ aud.todo \ {o} \in SUBSET Runs
    BY DEF RepairInv, AudType
  <1>. QED
    BY <1>1, <1>3, <1>4, <1>5, <1>6, FindingsAdded

LEMMA Concludes == ASSUME RepairInv, Evidence!Conclude PROVE RepairInv'
  <1>1. /\ UNCHANGED <<evidenceNow, status, started, step, at, direct, refs, local, mirror, faulty, rec>>
        /\ faults' \in Nat /\ faults' >= faults /\ aud.pc = "busy" /\ aud.todo = {}
    BY DEF Evidence!Conclude, RepairInv, WriterType, Evidence!writer
  <1>. DEFINE new == UNION {{r} \X Evidence!RunFindings(r) : r \in Runs}
  <1>2. \A r \in Runs : Evidence!RunFindings(r) \subseteq {"failed_run", "stale_run", "missing_batch_evidence"}
    BY DEF Evidence!RunFindings
  <1>3. new \in SUBSET (Runs \X Findings)
    BY <1>2 DEF Findings
  <1>4. \A r \in Runs : "missing_batch_evidence" \in Evidence!RunFindings(r) => r \notin aud.listed
    BY DEF Evidence!RunFindings
  <1>5. \A f \in new : f[2] \in {"missing_object", "hash_mismatch", "missing_batch_evidence"} =>
           aud.status[f[1]] # "succeeded" \/ f[1] \in faulty
    <2>1. ASSUME NEW f \in new PROVE f[1] \in Runs /\ f[2] \in Evidence!RunFindings(f[1])
      BY <2>1
    <2>. QED
      BY <1>2, <1>4, <2>1 DEF RepairInv, AudOK
  <1>. DEFINE pc0 == IF \E f \in aud.findings \cup new : f[2] = "object_read_failed" THEN "incomplete"
                     ELSE IF aud.findings \cup new # {} THEN "findings" ELSE "passed"
  <1>6. aud' = [aud EXCEPT !.findings = aud.findings \cup new, !.pc = pc0]
    BY DEF Evidence!Conclude
  <1>7. pc0 \in {"busy", "passed", "findings", "incomplete"}
        /\ (pc0 = "passed" => aud.findings \cup new = {})
    OBVIOUS
  <1>. HIDE DEF new, pc0
  <1>8. aud' = [aud EXCEPT !.todo = aud.todo, !.findings = @ \cup new, !.pc = pc0]
    BY <1>6 DEF RepairInv, AudType
  <1>9. aud.todo \in SUBSET Runs
    BY DEF RepairInv, AudType
  <1>. QED
    BY <1>1, <1>3, <1>5, <1>7, <1>8, <1>9, FindingsAdded

-----------------------------------------------------------------------------
LEMMA Rots == ASSUME RepairInv, NEW o \in Runs, Evidence!Rot(o) PROVE RepairInv'
  <1>1. /\ UNCHANGED <<evidenceNow, status, started, step, at, direct, refs, rec, faults>>
        /\ faulty' = faulty \cup {o}
    BY DEF Evidence!Rot, Evidence!writer
  <1>2. \/ mirror' = mirror /\ aud' = aud
        \/ /\ \E c \in {"absent", "bad", "foreign"} : mirror' = [mirror EXCEPT ![o] = c]
           /\ aud' = [aud EXCEPT !.spoiled = @ \cup {o}] /\ local' = local
    BY DEF Evidence!Rot
  <1>3. local' = local \/ \E h \in Hosts : \E c \in {"absent", "bad"} : local' = [local EXCEPT ![h][o] = c]
    BY DEF Evidence!Rot
  <1>4. WriterType'
    <2>1. mirror' \in [Runs -> Evidence!Contents]
      BY <1>2 DEF RepairInv, WriterType, Evidence!Contents
    <2>2. local' \in [Hosts -> [Runs -> Evidence!Contents \ {"foreign"}]]
      BY <1>3 DEF RepairInv, WriterType, Evidence!Contents
    <2>. QED
      BY <1>1, <2>1, <2>2 DEF RepairInv, WriterType
  <1>5. /\ \A p \in Runs \ {o} : mirror'[p] = mirror[p]
        /\ \A p \in Runs \ {o}, h \in Hosts : local'[h][p] = local[h][p]
    BY <1>2, <1>3 DEF RepairInv, WriterType
  <1>6. WriterOK'
    BY <1>1, <1>5 DEF RepairInv, WriterOK, Stored
  <1>7. Grows
    <2>1. o \in aud'.spoiled \/ mirror' = mirror
      BY <1>2 DEF RepairInv, AudType
    <2>2. faults' >= faults
      BY <1>1 DEF RepairInv, WriterType
    <2>. QED
      BY <1>1, <1>5, <2>1, <2>2 DEF Grows
  <1>8. aud' = aud \/ \E S \in SUBSET Runs : aud' = [aud EXCEPT !.spoiled = @ \cup S]
    <2>1. {o} \in SUBSET Runs
      OBVIOUS
    <2>. QED
      BY <1>2, <2>1
  <1>. QED
    BY <1>1, <1>4, <1>6, <1>7, <1>8, RecUntouched, AudUntouched DEF RepairInv

LEMMA RepairUnchanged == ASSUME RepairInv, UNCHANGED Evidence!vars PROVE RepairInv'
  <1>1. UNCHANGED evidenceVars
    BY DEF Evidence!vars, Evidence!writer, evidenceVars
  <1>. QED
    BY <1>1 DEF evidenceVars, RepairInv, WriterType, RecType, AudType, WriterOK, RecOK, AudOK, Stored

LEMMA RepairStep == RepairInv /\ [Evidence!Next]_(Evidence!vars) => RepairInv'
  BY RunStarts, PutsLocal, PutsMirror, MirrorFailing, Refers, Ends, Crashes, Ticks, RepairBegins,
     LocalChecked, MirrorRepaired, RepairReports, SnapshotLoaded, Inspected, Concludes, Rots,
     RepairUnchanged DEF Evidence!Next

LEMMA RepairTold == RepairInv => MirrorIsTold
  <1>. SUFFICES ASSUME RepairInv PROVE MirrorIsTold
    OBVIOUS
  <1>1. Evidence!PassedRepairMirrors
    <2>. SUFFICES ASSUME rec.pc = "passed", rec.repair, NEW o \in rec.listed \ faulty
                  PROVE  mirror[o] = "good"
      BY DEF Evidence!PassedRepairMirrors
    <2>. QED
      BY DEF RepairInv, RecOK, Stored
  <1>2. Evidence!RepairFailsForCause
    BY DEF Evidence!RepairFailsForCause, RepairInv, RecOK
  <1>3. Evidence!PassedAuditIsTrue
    <2>. SUFFICES ASSUME aud.pc = "passed", NEW r \in Runs, r \in aud.listed
                  PROVE  mirror[r] = "good" \/ r \in aud.spoiled
      BY DEF Evidence!PassedAuditIsTrue, RepairInv, AudOK
    <2>. QED
      BY DEF RepairInv, AudOK
  <1>4. Evidence!SucceededRunsAuditClean
    BY DEF Evidence!SucceededRunsAuditClean, RepairInv, AudOK
  <1>. QED
    BY <1>1, <1>2, <1>3, <1>4 DEF MirrorIsTold

-----------------------------------------------------------------------------
(* The platform gates: each report, wherever it has been copied, carries what *)
(* its gate decided from.                                                     *)

PacketOK ==
  packet # Platform!Missing => \A c \in DOMAIN packet.checks : packet.checks[c].at \in Nat

OperatorOK(o) ==
  /\ o.status \in {"ready", "stale", "blocked", "missing", "review_required"}
  /\ o.status = "ready" => \A c \in Required :
       /\ c \in DOMAIN o.packet.checks
       /\ o.packet.checks[c].status = "passed"
       /\ o.at - o.packet.checks[c].at \in 0 .. MaxAge * Second

Gated == {"ready", "review_required", "blocked", "stale", "missing"}

ReleaseOK(r) ==
  /\ r.status \in Gated
  /\ r.status = "ready" => Platform!Approved(r.manifest)

Backed(f) ==
  f.status = "ready" =>
    /\ \A k \in Platform!OTHERS : f.others[k] = "ready"
    /\ f.operator.status = "ready" /\ f.release.status = "ready"
    /\ OperatorOK(f.operator)

PlatformInv ==
  /\ now \in Nat /\ PacketOK /\ OperatorOK(operator) /\ ReleaseOK(release)
  /\ others \in [Platform!OTHERS -> Gated]
  /\ DOMAIN builder = Builders
  /\ \A b \in Builders : builder[b].pc = "link" => Backed(builder[b].report)
  /\ Backed(output)

LEMMA WorstReady ==
  ASSUME NEW V, Platform!Worst(V) = "ready"
  PROVE  V \cap {"blocked", "stale", "missing", "review_required"} = {}
  BY DEF Platform!Worst

LEMMA OperatorEarned ==
  ASSUME NEW p, NEW t \in Nat, \A c \in DOMAIN p.checks : p.checks[c].at \in Nat
  PROVE  OperatorOK(Platform!OperatorReport(p, t))
  <1>. DEFINE o == Platform!OperatorReport(p, t)
              V == {Platform!Verdict(p, c, t) : c \in Required}
  <1>1. o = [status |-> Platform!Worst(V), at |-> t, packet |-> p]
    BY DEF Platform!OperatorReport
  <1>. HIDE DEF o, V
  <1>2. o.status = Platform!Worst(V) /\ o.at = t /\ o.packet = p
    BY <1>1
  <1>3. o.status \in {"ready", "stale", "blocked", "missing", "review_required"}
    BY <1>2 DEF Platform!Worst
  <1>4. ASSUME o.status = "ready", NEW c \in Required
        PROVE  /\ c \in DOMAIN p.checks /\ p.checks[c].status = "passed"
               /\ t - p.checks[c].at \in 0 .. MaxAge * Second
    <2>1. Platform!Verdict(p, c, t) \in V
      BY DEF V
    <2>2. Platform!Verdict(p, c, t) \notin {"blocked", "stale"}
      BY <1>2, <1>4, <2>1, WorstReady
    <2>3. /\ c \in DOMAIN p.checks /\ p.checks[c].status = "passed"
          /\ Platform!Fresh(p.checks[c], t)
      BY <2>2 DEF Platform!Verdict
    <2>4. MaxAge \in Nat /\ Second \in Nat /\ p.checks[c].at \in Nat
      BY <2>3, EvidenceAssumption DEF Platform!ReadinessAssumption
    <2>5. MaxAge * Second \in Nat
      BY <2>4
    <2>. QED
      BY <2>3, <2>4, <2>5 DEF Platform!Fresh
  <1>5. OperatorOK(o)
    BY <1>2, <1>3, <1>4 DEF OperatorOK
  <1>. QED
    BY <1>5 DEF o

LEMMA ReleaseEarned == ASSUME NEW m PROVE ReleaseOK(Platform!ReleaseReport(m))
  <1>1. /\ Platform!ReleaseReport(m).manifest = m
        /\ Platform!ReleaseReport(m).status \in Gated
        /\ Platform!ReleaseReport(m).status = "ready" =>
             Platform!BundleErrors(m) = {} /\ Platform!ReviewReasons(m) = {}
    BY DEF Platform!ReleaseReport, Gated
  <1>2. ASSUME Platform!BundleErrors(m) = {}, Platform!ReviewReasons(m) = {}, ~Platform!Approved(m)
        PROVE  FALSE
    <2>1. m.status = "approved"
      BY <1>2 DEF Platform!ReviewReasons
    <2>2. m.sources \ {"approved"} = {}
      BY <1>2 DEF Platform!ReviewReasons
    <2>3. m.legal /\ m.reviewed
      BY <1>2, <2>1 DEF Platform!BundleErrors
    <2>4. m.sources # {}
      BY <1>2 DEF Platform!BundleErrors
    <2>. QED
      BY <1>2, <2>1, <2>2, <2>3, <2>4 DEF Platform!Approved
  <1>. QED
    BY <1>1, <1>2 DEF ReleaseOK

LEMMA PlatformEarned ==
  ASSUME NEW o, NEW r, NEW s \in [Platform!OTHERS -> Gated], OperatorOK(o), ReleaseOK(r)
  PROVE  Backed(Platform!Platform(o, r, s))
  <1>. DEFINE V == {o.status, r.status} \cup {s[k] : k \in Platform!OTHERS}
              f == Platform!Platform(o, r, s)
  <1>1. f = [status |-> IF Platform!Worst(V) = "stale" THEN "blocked" ELSE Platform!Worst(V),
             operator |-> o, release |-> r, others |-> s]
    BY DEF Platform!Platform
  <1>2. V \subseteq Gated
    BY DEF OperatorOK, ReleaseOK, Gated
  <1>3. o.status \in V /\ r.status \in V /\ \A k \in Platform!OTHERS : s[k] \in V
    OBVIOUS
  <1>. HIDE DEF V, f
  <1>4. /\ f.operator = o /\ f.release = r /\ f.others = s
        /\ f.status = "ready" => Platform!Worst(V) = "ready"
    BY <1>1
  <1>5. Platform!Worst(V) = "ready" => V \subseteq {"ready"}
    BY <1>2, WorstReady DEF Gated
  <1>6. Backed(f)
    BY <1>3, <1>4, <1>5 DEF Backed
  <1>. QED
    BY <1>6 DEF f

LEMMA PlatformInit == Platform!Init => PlatformInv
  <1>. SUFFICES ASSUME Platform!Init PROVE PlatformInv
    OBVIOUS
  <1>1. Platform!Missing.status = "missing"
    BY DEF Platform!Missing
  <1>2. OperatorOK(operator) /\ ReleaseOK(release) /\ Backed(output)
    BY <1>1 DEF Platform!Init, OperatorOK, ReleaseOK, Backed, Gated
  <1>3. now \in Nat /\ PacketOK /\ others \in [Platform!OTHERS -> Gated] /\ DOMAIN builder = Builders
    BY DEF Platform!Init, PacketOK, Gated
  <1>4. \A b \in Builders : builder[b].pc = "idle"
    BY DEF Platform!Init
  <1>. QED
    BY <1>2, <1>3, <1>4 DEF PlatformInv

LEMMA PlatformStep == PlatformInv /\ [Platform!Next]_(Platform!vars) => PlatformInv'
  <1>. SUFFICES ASSUME PlatformInv, [Platform!Next]_(Platform!vars) PROVE PlatformInv'
    OBVIOUS
  <1>. USE DEF PlatformInv
  <1>1. CASE \E scope \in SUBSET Checks :
               \E checks \in [scope -> [status : {"passed", "failed"}, at : 1 .. now + Skew]] :
                 Platform!Seal(checks)
    <2>0. PICK scope \in SUBSET Checks :
            \E checks \in [scope -> [status : {"passed", "failed"}, at : 1 .. now + Skew]] :
              Platform!Seal(checks)
      BY <1>1
    <2>1. PICK checks \in [scope -> [status : {"passed", "failed"}, at : 1 .. now + Skew]] :
            Platform!Seal(checks)
      BY <2>0
    <2>2. /\ packet' = [status |-> "sealed", checks |-> checks, captured |-> now]
          /\ UNCHANGED <<now, operator, provenance, release, others, builder, output>>
      BY <2>1 DEF Platform!Seal
    <2>3. packet'.checks = checks
      BY <2>2
    <2>4. \A c \in DOMAIN checks : checks[c].at \in Nat
      <3>1. Skew \in Nat
        BY EvidenceAssumption DEF Platform!ReadinessAssumption
      <3>2. 1 .. now + Skew \subseteq Nat
        BY <3>1
      <3>. QED
        BY <3>2
    <2>5. PacketOK'
      BY <2>3, <2>4 DEF PacketOK
    <2>. QED
      BY <2>2, <2>5
  <1>2. CASE Platform!Evaluate
    <2>1. /\ packet # Platform!Missing /\ operator' = Platform!OperatorReport(packet, now)
          /\ UNCHANGED <<now, packet, provenance, release, others, builder, output>>
      BY <1>2 DEF Platform!Evaluate
    <2>2. PICK p, t : p = packet /\ t = now
      OBVIOUS
    <2>3. OperatorOK(Platform!OperatorReport(p, t))
      BY <2>1, <2>2, OperatorEarned DEF PacketOK
    <2>. QED
      BY <2>1, <2>2, <2>3 DEF PacketOK
  <1>3. CASE Platform!Release
    <2>1. /\ release' = Platform!ReleaseReport(provenance)
          /\ UNCHANGED <<now, packet, operator, others, builder, output>>
      BY <1>3 DEF Platform!Release
    <2>2. PICK m : m = provenance
      OBVIOUS
    <2>. QED
      BY <2>1, <2>2, ReleaseEarned DEF PacketOK
  <1>4. CASE Platform!Tick
    BY <1>4 DEF Platform!Tick, Platform!gates, PacketOK
  <1>5. CASE \E m \in Manifests : Platform!EditManifest(m)
    BY <1>5 DEF Platform!EditManifest, PacketOK
  <1>6. CASE \E k \in Platform!OTHERS, s \in Outcomes : Platform!OtherGate(k, s)
    <2>1. Outcomes \subseteq Gated
      BY EvidenceAssumption DEF Platform!ReadinessAssumption, Gated
    <2>. QED
      BY <1>6, <2>1 DEF Platform!OtherGate, PacketOK
  <1>7. CASE \E b \in Builders : Platform!Compose(b)
    <2>1. PICK b \in Builders : Platform!Compose(b)
      BY <1>7
    <2>2. PICK o, r, s : o = operator /\ r = release /\ s = others
      OBVIOUS
    <2>3. /\ builder' = [builder EXCEPT ![b] = [pc |-> "link", report |-> Platform!Platform(o, r, s)]]
          /\ UNCHANGED <<now, packet, operator, release, others, output>>
      BY <2>1, <2>2 DEF Platform!Compose, Platform!gates
    <2>4. Backed(Platform!Platform(o, r, s))
      BY <2>2, PlatformEarned
    <2>5. PICK f : f = Platform!Platform(o, r, s)
      OBVIOUS
    <2>6. builder'[b].report = f /\ \A c \in Builders \ {b} : builder'[c] = builder[c]
      BY <2>3, <2>5
    <2>7. \A c \in Builders : builder'[c].pc = "link" => Backed(builder'[c].report)
      BY <2>4, <2>5, <2>6
    <2>. QED
      BY <2>3, <2>7 DEF PacketOK
  <1>8. CASE \E b \in Builders : Platform!Publish(b)
    <2>1. PICK b \in Builders : Platform!Publish(b)
      BY <1>8
    <2>2. /\ builder[b].pc = "link" /\ output' \in {builder[b].report, output}
          /\ builder' = [builder EXCEPT ![b] = [pc |-> "idle"]]
          /\ UNCHANGED <<now, packet, operator, release, others>>
      BY <2>1 DEF Platform!Publish, Platform!gates
    <2>3. Backed(output')
      BY <2>2
    <2>4. \A c \in Builders : builder'[c].pc = "link" => Backed(builder'[c].report)
      BY <2>2
    <2>. QED
      BY <2>2, <2>3, <2>4 DEF PacketOK
  <1>9. CASE UNCHANGED Platform!vars
    BY <1>9 DEF Platform!vars, PacketOK
  <1>. QED
    BY <1>1, <1>2, <1>3, <1>4, <1>5, <1>6, <1>7, <1>8, <1>9 DEF Platform!Next

LEMMA PlatformBacked == PlatformInv => Platform!ReadyIsBacked /\ Platform!ReleaseIsApproved
  BY DEF PlatformInv, Backed, OperatorOK, ReleaseOK, Platform!ReadyIsBacked, Platform!ReleaseIsApproved

-----------------------------------------------------------------------------
(* Drift.  A history and a decision are made of reports of the command.       *)

Reports == {[status |-> Drift!Overall(d), dataset |-> d, model |-> m] : d \in Datasets, m \in Models}

OneModel(reports) == Drift!Cardinality({r.model : r \in Drift!Range(reports)}) = 1

Clean(d) ==
  /\ d.components # NotSupplied
  /\ \A m \in d.features : m.dims /\ m.names
  /\ \A c \in Drift!Columns(d) :
       ~c.shifted /\ c.p - c.b <= MissingDelta /\ c.b - c.p <= MissingDelta

DriftInv ==
  /\ file \in [Paths -> Reports \cup {Drift!Missing}]
  /\ history # Drift!Missing => history.reports \in Seq(Reports) /\ OneModel(history.reports)
  /\ Drift!ReadyIsClean

LEMMA SectionClean ==
  ASSUME NEW S, Drift!SectionStatus(S) \notin {"error", "warning"}
  PROVE  S \cap {"error", "dimension_mismatch", "warning"} = {}
  BY DEF Drift!SectionStatus

LEMMA ColumnClean ==
  ASSUME NEW d \in Datasets, NEW c \in Drift!Columns(d), Drift!ColumnStatus(c) # "warning"
  PROVE  ~c.shifted /\ c.p - c.b <= MissingDelta /\ c.b - c.p <= MissingDelta
  <1>1. c.b \in Int /\ c.p \in Int /\ MissingDelta \in Int
    BY EvidenceAssumption DEF Drift!DriftAssumption
  <1>2. ~(c.shifted \/ c.b - c.p > MissingDelta \/ c.p - c.b > MissingDelta)
    BY DEF Drift!ColumnStatus
  <1>. QED
    BY <1>1, <1>2

LEMMA StableIsClean ==
  ASSUME NEW d \in Datasets, Drift!Overall(d) = "stable"
  PROVE  Clean(d)
  <1>. DEFINE features == Drift!SectionStatus({Drift!MatrixStatus(m) : m \in d.features})
              components == Drift!ComponentStatus(d.components)
  <1>1. {features, components} \cap {"error", "warning", "not_supplied"} = {}
    <2>1. components # "not_supplied" /\ features # "not_supplied"
      BY DEF Drift!Overall, Drift!SectionStatus
    <2>. QED
      BY <2>1 DEF Drift!Overall
  <1>2. ASSUME NEW m \in d.features
        PROVE  /\ m.dims /\ m.names
               /\ \A c \in m.columns : Drift!ColumnStatus(c) # "warning"
    <2>1. Drift!MatrixStatus(m) \notin {"error", "dimension_mismatch", "warning"}
      <3>1. Drift!MatrixStatus(m) \in {Drift!MatrixStatus(n) : n \in d.features}
        OBVIOUS
      <3>2. {Drift!MatrixStatus(n) : n \in d.features} \cap {"error", "dimension_mismatch", "warning"} = {}
        BY <1>1, SectionClean
      <3>. QED
        BY <3>1, <3>2
    <2>2. m.dims /\ m.names
      BY <2>1 DEF Drift!MatrixStatus
    <2>3. Drift!SectionStatus({Drift!ColumnStatus(c) : c \in m.columns}) \notin {"error", "warning"}
      BY <2>1 DEF Drift!MatrixStatus
    <2>4. {Drift!ColumnStatus(c) : c \in m.columns} \cap {"error", "dimension_mismatch", "warning"} = {}
      BY <2>3, SectionClean
    <2>. QED
      BY <2>2, <2>4
  <1>3. /\ d.components # NotSupplied
        /\ \A c \in d.components : Drift!ColumnStatus(c) # "warning"
    <2>1. d.components # NotSupplied
      BY <1>1 DEF Drift!ComponentStatus
    <2>2. Drift!SectionStatus({Drift!ColumnStatus(c) : c \in d.components}) \notin {"error", "warning"}
      BY <1>1, <2>1 DEF Drift!ComponentStatus
    <2>3. {Drift!ColumnStatus(c) : c \in d.components} \cap {"error", "dimension_mismatch", "warning"} = {}
      BY <2>2, SectionClean
    <2>. QED
      BY <2>1, <2>3
  <1>4. \A c \in Drift!Columns(d) : Drift!ColumnStatus(c) # "warning"
    <2>1. ASSUME NEW c \in Drift!Columns(d)
          PROVE  c \in d.components \/ \E m \in d.features : c \in m.columns
      BY DEF Drift!Columns
    <2>. QED
      BY <1>2, <1>3, <2>1
  <1>. QED
    BY <1>2, <1>3, <1>4, ColumnClean DEF Clean

LEMMA DriftSize == \A S : Drift!Cardinality(S) = Cardinality(S)
  BY DEF Drift!Cardinality, Cardinality

(* As many ids as reports, when no two of them share one.                     *)
LEMMA DistinctIds ==
  ASSUME NEW s \in Seq(Reports),
         \A i, j \in DOMAIN s : i < j => s[i].dataset.id # s[j].dataset.id
  PROVE  Drift!Cardinality({r.dataset.id : r \in Drift!Range(s)}) = Len(s)
  <1>. DEFINE n == Len(s)
              ids == {r.dataset.id : r \in Drift!Range(s)}
              f == [i \in 1 .. n |-> s[i].dataset.id]
  <1>1. n \in Nat /\ DOMAIN s = 1 .. n
    OBVIOUS
  <1>2. ids = {s[i].dataset.id : i \in 1 .. n}
    BY <1>1 DEF Drift!Range
  <1>3. f \in Surjection(1 .. n, ids)
    BY <1>2 DEF Surjection
  <1>4. f \in Injection(1 .. n, ids)
    <2>1. \A i, j \in 1 .. n : f[i] = f[j] => i = j
      BY <1>1
    <2>2. f \in [1 .. n -> ids]
      BY <1>2
    <2>. QED
      BY <2>1, <2>2 DEF Injection, IsInjective
  <1>5. IsFiniteSet(1 .. n) /\ Cardinality(1 .. n) = n
    <2>1. n \in Int
      BY <1>1
    <2>. QED
      BY <1>1, <2>1, FS_Interval
  <1>. HIDE DEF f, ids, n
  <1>6. Cardinality(ids) = Cardinality(1 .. n)
    BY <1>3, <1>4, <1>5, FS_Surjection
  <1>. QED
    BY <1>5, <1>6, DriftSize DEF ids, n

LEMMA DecisionClean ==
  ASSUME NEW h, NEW min \in Nat, h.reports \in Seq(Reports), OneModel(h.reports),
         Drift!Verifies(h), Drift!FailedChecks(h, min) = {}
  PROVE  LET seen == Drift!Range(h.reports)
         IN  /\ Drift!Cardinality({r.dataset.id : r \in seen}) >= min
             /\ Drift!Cardinality({r.model : r \in seen}) = 1
             /\ \A r \in seen : Clean(r.dataset)
  <1>. DEFINE seen == Drift!Range(h.reports)
              statuses == [i \in DOMAIN h.reports |-> h.reports[i].status]
  <1>1. Drift!Cardinality({r.dataset.id : r \in seen}) = Len(h.reports)
    <2>1. \A i, j \in DOMAIN h.reports :
            i < j => h.reports[i].dataset.id # h.reports[j].dataset.id
      BY DEF Drift!Verifies
    <2>. QED
      BY <2>1, DistinctIds
  <1>2. ~(Len(h.reports) < min) /\ h.status = "stable"
    BY DEF Drift!FailedChecks
  <1>3. Drift!HistoryStatus(statuses, h.min) = "stable"
    BY <1>2 DEF Drift!Verifies
  <1>4. {"error", "incomplete", "warning"} \cap Drift!Range(statuses) = {}
    <2>. HIDE DEF statuses
    <2>. QED
      BY <1>3 DEF Drift!HistoryStatus
  <1>5. ASSUME NEW r \in seen PROVE Clean(r.dataset)
    <2>1. PICK i \in DOMAIN h.reports : r = h.reports[i]
      BY DEF Drift!Range
    <2>2. r.status \in Drift!Range(statuses)
      BY <2>1 DEF Drift!Range
    <2>3. r \in Reports
      BY <2>1
    <2>4. PICK d \in Datasets : r.status = Drift!Overall(d) /\ r.dataset = d
      BY <2>3 DEF Reports
    <2>5. Drift!Overall(d) = "stable"
      BY <1>4, <2>2, <2>4 DEF Drift!Overall
    <2>. QED
      BY <2>4, <2>5, StableIsClean
  <1>6. Len(h.reports) \in Nat
    OBVIOUS
  <1>. QED
    BY <1>1, <1>2, <1>5, <1>6 DEF OneModel

LEMMA DriftInit == Drift!Init => DriftInv
  BY DEF Drift!Init, DriftInv, Drift!ReadyIsClean

LEMMA DriftStep == DriftInv /\ [Drift!Next]_(Drift!vars) => DriftInv'
  <1>. SUFFICES ASSUME DriftInv, [Drift!Next]_(Drift!vars) PROVE DriftInv'
    OBVIOUS
  <1>. USE DEF DriftInv
  <1>1. CASE \E d \in Datasets, m \in Models, p \in Paths : Drift!Drift(d, m, p)
    <2>1. PICK d \in Datasets, m \in Models, p \in Paths : Drift!Drift(d, m, p)
      BY <1>1
    <2>2. /\ file' = [file EXCEPT ![p] = [status |-> Drift!Overall(d), dataset |-> d, model |-> m]]
          /\ history' = history /\ readiness' = readiness
      BY <2>1 DEF Drift!Drift
    <2>3. [status |-> Drift!Overall(d), dataset |-> d, model |-> m] \in Reports
      BY DEF Reports
    <2>4. file' \in [Paths -> Reports \cup {Drift!Missing}]
      BY <2>2, <2>3
    <2>5. Drift!ReadyIsClean'
      BY <2>2 DEF Drift!ReadyIsClean
    <2>. QED
      BY <2>2, <2>4, <2>5 DEF OneModel
  <1>2. CASE \E ps \in Drift!Listings, min \in Minima : Drift!Aggregate(ps, min)
    <2>1. PICK ps \in Drift!Listings, min \in Minima : Drift!Aggregate(ps, min)
      BY <1>2
    <2>. DEFINE reports == [i \in DOMAIN ps |-> file[ps[i]]]
    <2>2. PICK inOrder \in Drift!Orderings(reports) : history' = Drift!BuildHistory(inOrder, min)
      BY <2>1 DEF Drift!Aggregate
    <2>3. PICK n \in Nat : ps \in [1 .. n -> Paths]
      BY DEF Drift!Listings
    <2>4. Drift!Missing \notin Drift!Range(reports) /\ OneModel(reports)
          /\ file' = file /\ readiness' = readiness
      BY <2>1 DEF Drift!Aggregate, OneModel
    <2>5. Drift!Range(reports) \subseteq Reports
      <3>1. ASSUME NEW i \in 1 .. n PROVE file[ps[i]] \in Reports
        <4>1. file[ps[i]] \in Drift!Range(reports) /\ file[ps[i]] \in Reports \cup {Drift!Missing}
          BY <2>3 DEF Drift!Range
        <4>. QED
          BY <2>4, <4>1
      <3>. QED
        BY <2>3, <3>1 DEF Drift!Range
    <2>6. inOrder \in [1 .. n -> Reports] /\ Drift!Range(inOrder) = Drift!Range(reports)
      BY <2>3, <2>5 DEF Drift!Orderings
    <2>7. history'.reports = inOrder
      BY <2>2 DEF Drift!BuildHistory
    <2>8. inOrder \in Seq(Reports) /\ OneModel(inOrder)
      BY <2>4, <2>6 DEF OneModel
    <2>9. Drift!ReadyIsClean'
      BY <2>4 DEF Drift!ReadyIsClean
    <2>. QED
      BY <2>4, <2>7, <2>8, <2>9
  <1>3. CASE \E min \in Minima : Drift!Decide(min)
    <2>1. PICK min \in Minima : Drift!Decide(min)
      BY <1>3
    <2>2. PICK h : h = history
      OBVIOUS
    <2>3. /\ h # Drift!Missing /\ Drift!Verifies(h) /\ file' = file /\ history' = history
          /\ readiness'.history = h /\ readiness'.min = min
          /\ readiness'.status = "ready" => Drift!FailedChecks(h, min) = {}
      BY <2>1, <2>2 DEF Drift!Decide
    <2>4. min \in Nat
      BY EvidenceAssumption DEF Drift!DriftAssumption
    <2>5. h.reports \in Seq(Reports) /\ OneModel(h.reports)
      BY <2>2, <2>3
    <2>6. Drift!ReadyIsClean'
      <3>1. CASE Drift!FailedChecks(h, min) = {}
        <4>. DEFINE seen == Drift!Range(h.reports)
        <4>1. /\ Drift!Cardinality({r.dataset.id : r \in seen}) >= min
              /\ Drift!Cardinality({r.model : r \in seen}) = 1
              /\ \A r \in seen : Clean(r.dataset)
          BY <2>3, <2>4, <2>5, <3>1, DecisionClean
        <4>. HIDE DEF seen
        <4>2. Drift!Range(readiness'.history.reports) = seen
          BY <2>3 DEF seen
        <4>. QED
          BY <2>3, <4>1, <4>2 DEF Clean, Drift!ReadyIsClean
      <3>2. CASE Drift!FailedChecks(h, min) # {}
        BY <2>3, <3>2 DEF Drift!ReadyIsClean
      <3>. QED
        BY <3>1, <3>2
    <2>. QED
      BY <2>3, <2>6 DEF OneModel
  <1>4. CASE UNCHANGED Drift!vars
    <2>1. UNCHANGED <<file, history, readiness>>
      BY <1>4 DEF Drift!vars
    <2>2. Drift!ReadyIsClean'
      BY <2>1 DEF Drift!ReadyIsClean
    <2>. QED
      BY <2>1, <2>2 DEF OneModel
  <1>. QED
    BY <1>1, <1>2, <1>3, <1>4 DEF Drift!Next

-----------------------------------------------------------------------------
(* What the three components promise, alone and composed.                     *)

LEMMA RepairAlways == Evidence!Spec => []RepairInv
  BY RepairInit, RepairStep, PTL DEF Evidence!Spec

LEMMA PlatformAlways == Platform!Spec => []PlatformInv
  BY PlatformInit, PlatformStep, PTL DEF Platform!Spec

LEMMA DriftAlways == Drift!Spec => []DriftInv
  BY DriftInit, DriftStep, PTL DEF Drift!Spec

EvidenceInv == RepairInv /\ PlatformInv /\ DriftInv

LEMMA EvidenceStep ==
  EvidenceInv /\ [MCNext]_<<vars, evidenceVars, platformVars, driftVars, focus>> => EvidenceInv'
  <1>1. UNCHANGED evidenceVars => UNCHANGED Evidence!vars
    BY DEF evidenceVars, Evidence!vars, Evidence!writer
  <1>2. UNCHANGED platformVars => UNCHANGED Platform!vars
    BY DEF platformVars, Platform!vars
  <1>3. UNCHANGED driftVars => UNCHANGED Drift!vars
    BY DEF driftVars, Drift!vars
  <1>4. [MCNext]_<<vars, evidenceVars, platformVars, driftVars, focus>> =>
          /\ [Evidence!Next]_(Evidence!vars) /\ [Platform!Next]_(Platform!vars)
          /\ [Drift!Next]_(Drift!vars)
    BY <1>1, <1>2, <1>3 DEF MCNext
  <1>. QED
    BY <1>4, RepairStep, PlatformStep, DriftStep DEF EvidenceInv

LEMMA EvidenceAlways == MCSpec => []EvidenceInv
  <1>1. MCInit => EvidenceInv
    BY RepairInit, PlatformInit, DriftInit DEF MCInit, EvidenceInv
  <1>. QED
    BY <1>1, EvidenceStep, PTL DEF MCSpec

(* A repair that passes has mirrored what it listed, one that fails has a     *)
(* cause, and an audit that passes has seen the evidence of every run with an *)
(* outcome, without a false alarm for those that succeeded.                   *)
THEOREM MirrorTold == MCSpec => []MirrorIsTold
  <1>1. EvidenceInv => MirrorIsTold
    BY RepairTold DEF EvidenceInv
  <1>. QED
    BY <1>1, EvidenceAlways, PTL

(* The same when repairs and audits run at once, on any host, of references   *)
(* of any backend.                                                            *)
THEOREM MirrorToldAtOnce == Evidence!Spec => []MirrorIsTold
  BY RepairTold, RepairAlways, PTL

(* A ready platform report rests on gates that were ready, on checks that had *)
(* passed at an allowed age and on an approved release; a drift decision that *)
(* exits 0 rests on enough clean datasets of one model.                       *)
THEOREM ReadyEarned == MCSpec => []ReadyIsEarned
  <1>1. EvidenceInv => ReadyIsEarned
    BY PlatformBacked DEF EvidenceInv, DriftInv, ReadyIsEarned
  <1>. QED
    BY <1>1, EvidenceAlways, PTL

(* The same of the two gates alone: the manifest edited, checks sealed and    *)
(* reports rebuilt in any order, as time passes.                              *)
THEOREM GatesEarned ==
  /\ Platform!Spec => [](Platform!ReadyIsBacked /\ Platform!ReleaseIsApproved)
  /\ Drift!Spec => []Drift!ReadyIsClean
  <1>1. DriftInv => Drift!ReadyIsClean
    BY DEF DriftInv
  <1>. QED
    BY <1>1, PlatformBacked, PlatformAlways, DriftAlways, PTL

=============================================================================
