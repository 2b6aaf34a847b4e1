-------------------------- MODULE McgMaterializer --------------------------
(***************************************************************************)
(* Phase 8: glm53_mcg_materializer writes the checkpoint shard by shard    *)
(* into an output root that survives the process, and is run again after a *)
(* crash.  A materialization plan seals the receipts of the packed         *)
(* surface it was built from and is identified by the surface's version;   *)
(* a shard's tensors depend on the version only if some are routed, but     *)
(* the file names in its metadata the plan it was written for, and its     *)
(* receipt seals the hash of the file that was there.  Shards and auxiliary *)
(* files are replaced atomically from a temporary file beside them.        *)
(***************************************************************************)
EXTENDS Naturals, Sequences

CONSTANTS Packers,     \* pack processes that may overlap
          NumShards,   \* shards, in the order they are written
          Routed,      \* those with routed tensors
          MaxVersion,  \* bound: the surface is re-encoded so often
          PackUsages,  \* ways the operator packs
          NoFile       \* no such file

Shards == 1..NumShards

Versions == 1..MaxVersion

(* A shard file: the plan in its metadata, and its tensors.  Two files     *)
(* have the same hash if they agree in both.                               *)
File == [plan : Versions, payload : {0} \union Versions]

(* A shard receipt: the plan it was written under, and the file it hashed. *)
Receipt == [plan : Versions, file : File]

ASSUME MaterializerAssumption ==
  /\ NumShards \in Nat \ {0}
  /\ Routed \subseteq Shards
  /\ MaxVersion \in Nat \ {0}
  /\ PackUsages \subseteq [packers : SUBSET Packers, versions : Versions]
  /\ NoFile \notin Nat \union File \union Receipt

VARIABLES
  packs,     \* the packs that may overlap, the surfaces there will be
  surface,   \* version of the packed surface under layers/
  shard,     \* the shard files
  receipt,   \* the shard receipts
  temps,     \* temporary files in the output root
  docs,      \* plan each document was written for
  final,     \* materialization-receipt.json: its plan, the files it lists
  step,      \* where a packer is
  planOf,    \* the plan it runs
  atFile,    \* the shard or document it is at
  hashes     \* the shard files it has a receipt of, in its memory

output == <<shard, receipt, temps, docs, final>>
packer == <<step, planOf, atFile, hashes>>
encoding == <<packs, surface>>
packVars == <<encoding, output, packer>>

(* The tensors a plan puts into a shard: native ones are the same in every *)
(* plan.                                                                   *)
Payload(s, v) == IF s \in Routed THEN v ELSE 0

FileOf(s, v) == [plan |-> v, payload |-> Payload(s, v)]

(* The files written after the shards, in this order; the auxiliary files  *)
(* are copies of the source's, whatever the plan.                          *)
Documents == <<"index", "config", "quantization", "auxiliary", "storage">>

Index == 1
Auxiliary == 4

(* Those the final receipt hashes on disk. *)
Rehashed == 1..3

DocumentOf(d, v) == IF d = Auxiliary THEN 0 ELSE v

NumFiles == NumShards + Len(Documents)

Steps == {"down", "killed", "file", "loaded", "writing", "replaced", "verified", "hashed",
          "copying", "verify", "complete"}

NoFiles == [s \in Shards |-> NoFile]

PackInit ==
  /\ packs \in PackUsages
  /\ surface = 1
  /\ shard = NoFiles
  /\ receipt = NoFiles
  /\ temps = {}
  /\ docs = [d \in DOMAIN Documents |-> NoFile]
  /\ final = NoFile
  /\ step = [p \in Packers |-> "down"]
  /\ planOf = [p \in Packers |-> 1]
  /\ atFile = [p \in Packers |-> 1]
  /\ hashes = [p \in Packers |-> NoFiles]

-----------------------------------------------------------------------------

GoTo(p, where) == step' = [step EXCEPT ![p] = where]

(* The process ends, and its memory with it. *)
Forget(p) ==
  /\ planOf' = [planOf EXCEPT ![p] = 1]
  /\ atFile' = [atFile EXCEPT ![p] = 1]
  /\ hashes' = [hashes EXCEPT ![p] = NoFiles]

(* A ValueError unwinds: the finally clause removes the temporary file. *)
Unwind(p) ==
  /\ GoTo(p, "down") /\ Forget(p)
  /\ temps' = temps \ {p}
  /\ UNCHANGED <<encoding, shard, receipt, docs, final>>

(* A kill does not. *)
Kill(p) ==
  /\ step[p] \notin {"down", "killed"}
  /\ GoTo(p, "killed") /\ Forget(p)
  /\ UNCHANGED <<encoding, output>>

(* The output root may hold nothing but the checkpoint's own files. *)
Begin(p) ==
  /\ p \in packs.packers
  /\ step[p] \in {"down", "killed", "complete"}
  /\ temps = {}
  /\ planOf' = [planOf EXCEPT ![p] = surface]
  /\ atFile' = [atFile EXCEPT ![p] = 1]
  /\ GoTo(p, "file")
  /\ UNCHANGED <<encoding, output, hashes>>

AtShard(p) == step[p] = "file" /\ atFile[p] \in Shards

Holds(p, file) == hashes' = [hashes EXCEPT ![p][atFile[p]] = file]

(* A resumed shard: its receipt is of this plan and its file hashes to it. *)
(* Mutant: the receipt's plan is not compared.                             *)
MatchesAnyPlan(p) == shard[atFile[p]] = receipt[atFile[p]].file

Matches(p) ==
  /\ receipt[atFile[p]].plan = planOf[p]
  /\ shard[atFile[p]] = receipt[atFile[p]].file

ResumeShard(p) ==
  /\ AtShard(p)
  /\ receipt[atFile[p]] # NoFile /\ Matches(p)
  /\ Holds(p, receipt[atFile[p]].file)
  /\ atFile' = [atFile EXCEPT ![p] = @ + 1]
  /\ UNCHANGED <<encoding, output, step, planOf>>

RefuseResume(p) ==
  /\ AtShard(p)
  /\ receipt[atFile[p]] # NoFile /\ ~Matches(p)
  /\ Unwind(p)

(* Choices are verified against the store of the surface on disk. *)
Readable(p) == Payload(atFile[p], planOf[p]) = Payload(atFile[p], surface)

LoadShard(p) ==
  /\ AtShard(p)
  /\ receipt[atFile[p]] = NoFile
  /\ Readable(p)
  /\ GoTo(p, "loaded")
  /\ UNCHANGED <<encoding, output, planOf, atFile, hashes>>

RefuseChoice(p) ==
  /\ AtShard(p)
  /\ receipt[atFile[p]] = NoFile
  /\ ~Readable(p)
  /\ Unwind(p)

WriteTemporary(p) ==
  /\ step[p] = "loaded"
  /\ shard[atFile[p]] = NoFile
  /\ temps' = temps \union {p}
  /\ GoTo(p, "writing")
  /\ UNCHANGED <<encoding, shard, receipt, docs, final, planOf, atFile, hashes>>

ReplaceShard(p) ==
  /\ step[p] = "writing"
  /\ shard' = [shard EXCEPT ![atFile[p]] = FileOf(atFile[p], planOf[p])]
  /\ temps' = temps \ {p}
  /\ GoTo(p, "replaced")
  /\ UNCHANGED <<encoding, receipt, docs, final, planOf, atFile, hashes>>

(* The file on disk is read back: the one just written, or one without a    *)
(* receipt, which is adopted if every tensor in it is this plan's,          *)
(* whichever plan its metadata names.                                      *)
ReadsBack(p) == step[p] = "replaced" \/ (step[p] = "loaded" /\ shard[atFile[p]] # NoFile)

VerifyShard(p) ==
  /\ ReadsBack(p)
  /\ shard[atFile[p]].payload = Payload(atFile[p], planOf[p])
  /\ GoTo(p, "verified")
  /\ UNCHANGED <<encoding, output, planOf, atFile, hashes>>

(* Mutant: any file without a receipt is refused. *)
RefuseAnyFile(p) ==
  /\ ReadsBack(p)
  /\ step[p] = "loaded" \/ shard[atFile[p]].payload # Payload(atFile[p], planOf[p])
  /\ Unwind(p)

RefuseFile(p) ==
  /\ ReadsBack(p)
  /\ shard[atFile[p]].payload # Payload(atFile[p], planOf[p])
  /\ Unwind(p)

(* The receipt seals the hash of the file that is there by now. *)
HashShard(p) ==
  /\ step[p] = "verified"
  /\ Holds(p, shard[atFile[p]])
  /\ GoTo(p, "hashed")
  /\ UNCHANGED <<encoding, output, planOf, atFile>>

WriteReceipt(p) ==
  /\ step[p] = "hashed"
  /\ receipt' = [receipt EXCEPT ![atFile[p]] =
                   [plan |-> planOf[p], file |-> hashes[p][atFile[p]]]]
  /\ atFile' = [atFile EXCEPT ![p] = @ + 1]
  /\ GoTo(p, "file")
  /\ UNCHANGED <<encoding, shard, temps, docs, final, planOf, hashes>>

Document(p) == atFile[p] - NumShards

AtDocument(p) == step[p] = "file" /\ Document(p) \in DOMAIN Documents

WriteDocument(p) ==
  /\ AtDocument(p) /\ Document(p) # Auxiliary
  /\ docs' = [docs EXCEPT ![Document(p)] = planOf[p]]
  /\ atFile' = [atFile EXCEPT ![p] = @ + 1]
  /\ UNCHANGED <<encoding, shard, receipt, temps, final, step, planOf, hashes>>

KeepAuxiliary(p) ==
  /\ AtDocument(p) /\ Document(p) = Auxiliary
  /\ docs[Auxiliary] # NoFile
  /\ atFile' = [atFile EXCEPT ![p] = @ + 1]
  /\ UNCHANGED <<encoding, output, step, planOf, hashes>>

CopyAuxiliary(p) ==
  /\ AtDocument(p) /\ Document(p) = Auxiliary
  /\ docs[Auxiliary] = NoFile
  /\ temps' = temps \union {p}
  /\ GoTo(p, "copying")
  /\ UNCHANGED <<encoding, shard, receipt, docs, final, planOf, atFile, hashes>>

ReplaceAuxiliary(p) ==
  /\ step[p] = "copying"
  /\ docs' = [docs EXCEPT ![Auxiliary] = 0]
  /\ temps' = temps \ {p}
  /\ atFile' = [atFile EXCEPT ![p] = @ + 1]
  /\ GoTo(p, "file")
  /\ UNCHANGED <<encoding, shard, receipt, final, planOf, hashes>>

(* The shard hashes of its own receipts, the documents as they are on disk. *)
FinalOf(p) ==
  [plan |-> planOf[p], files |-> hashes[p],
   docs |-> [d \in DOMAIN Documents |->
               IF d \in Rehashed THEN docs[d] ELSE DocumentOf(d, planOf[p])]]

(* Mutant: the receipt that says complete is written before the documents. *)
WriteFinalEarly(p) ==
  /\ step[p] = "file"
  /\ \/ atFile[p] = NumShards + 1 /\ final = NoFile /\ step' = step
     \/ atFile[p] > NumFiles /\ GoTo(p, "verify")
  /\ final' = FinalOf(p)
  /\ UNCHANGED <<encoding, shard, receipt, temps, docs, planOf, atFile, hashes>>

WriteFinal(p) ==
  /\ step[p] = "file" /\ atFile[p] > NumFiles
  /\ final' = FinalOf(p)
  /\ GoTo(p, "verify")
  /\ UNCHANGED <<encoding, shard, receipt, temps, docs, planOf, atFile, hashes>>

(* verify_materialized_checkpoint on what is on disk, without hashing the   *)
(* shards.                                                                 *)
Verified ==
  /\ final # NoFile
  /\ temps = {}
  /\ \A s \in Shards :
       shard[s] # NoFile /\ receipt[s] = [plan |-> final.plan, file |-> final.files[s]]
  /\ docs = final.docs /\ docs[Index] = final.plan

Verify(p) ==
  /\ step[p] = "verify" /\ Verified
  /\ GoTo(p, "complete") /\ Forget(p)
  /\ UNCHANGED <<encoding, output>>

RefuseVerify(p) ==
  /\ step[p] = "verify" /\ ~Verified
  /\ Unwind(p)

(* Layers are encoded again: a new surface, under a new plan. *)
Reencode ==
  /\ surface < packs.versions
  /\ surface' = surface + 1
  /\ UNCHANGED <<packs, output, packer>>

PackStep(p) ==
  \/ ResumeShard(p) \/ RefuseResume(p)
  \/ LoadShard(p) \/ RefuseChoice(p)
  \/ WriteTemporary(p) \/ ReplaceShard(p)
  \/ VerifyShard(p) \/ RefuseFile(p)
  \/ HashShard(p) \/ WriteReceipt(p)
  \/ WriteDocument(p)
  \/ KeepAuxiliary(p) \/ CopyAuxiliary(p) \/ ReplaceAuxiliary(p)
  \/ WriteFinal(p) \/ Verify(p) \/ RefuseVerify(p)

PackNext ==
  \/ \E p \in Packers : Begin(p) \/ PackStep(p) \/ Kill(p)
  \/ Reencode

PackSpec == PackInit /\ [][PackNext]_packVars

(* A started pack goes on, and the operator runs it until it completes. *)
PackFairness ==
  \A p \in Packers : /\ WF_packVars(PackStep(p))
                     /\ WF_packVars(Begin(p) /\ step[p] # "complete")

FairPackSpec == PackSpec /\ PackFairness

-----------------------------------------------------------------------------
(* Properties *)

PlanDocs == [DOMAIN Documents -> {NoFile, 0} \union Versions]

PackTypeOK ==
  /\ packs \in PackUsages
  /\ surface \in Versions
  /\ shard \in [Shards -> File \union {NoFile}]
  /\ receipt \in [Shards -> Receipt \union {NoFile}]
  /\ temps \subseteq Packers
  /\ docs \in PlanDocs
  /\ final \in {NoFile} \union
       [plan : Versions, files : [Shards -> File \union {NoFile}], docs : PlanDocs]
  /\ step \in [Packers -> Steps]
  /\ planOf \in [Packers -> Versions]
  /\ atFile \in [Packers -> 1..NumFiles + 1]
  /\ hashes \in [Packers -> [Shards -> File \union {NoFile}]]

(* The packs that run at once are of one surface: nothing in the root says  *)
(* which pack owns it, so two plans would write into each other's files.    *)
OneSurfaceAtATime ==
  \/ packs.versions = 1
  \/ \A p, q \in packs.packers : p = q

(* The tensors and documents are the plan's, and every hash in the receipts *)
(* is that of the file on disk.                                            *)
Exact(v, files) ==
  /\ \A d \in DOMAIN Documents : docs[d] = DocumentOf(d, v)
  /\ \A s \in Shards :
       /\ shard[s] = files[s] /\ receipt[s] = [plan |-> v, file |-> files[s]]
       /\ shard[s] # NoFile /\ shard[s].payload = Payload(s, v)

(* A checkpoint whose receipt says complete is exactly its plan's: every   *)
(* shard, every shard receipt and every document, after any crashes and     *)
(* re-encodings between runs and for overlapping packs of one surface.      *)
CompleteIsExact ==
  OneSurfaceAtATime /\ final # NoFile => Exact(final.plan, final.files) /\ docs = final.docs

(* As long as overlapping packs are of one surface, nothing disturbs a      *)
(* complete checkpoint: not the same pack run again, not a later pack of a  *)
(* surface encoded since.                                                   *)
CompleteIsFinal ==
  [][OneSurfaceAtATime /\ final # NoFile => UNCHANGED <<shard, receipt, docs, final>>]_packVars

Foreign(s) ==
  \/ shard[s] # NoFile /\ shard[s].payload # Payload(s, surface)
  \/ receipt[s] # NoFile /\ receipt[s].plan # surface

(* A receipt that seals another file than is there now. *)
Stale(s) == receipt[s] # NoFile /\ receipt[s].file # shard[s]

(* What does keep a pack from completing is something an operator can see   *)
(* in the output root: a temporary file nobody owns any more, the tensors   *)
(* or the shard receipt of another surface, or, where packs of two surfaces *)
(* overlapped, a shard replaced after its receipt was sealed.  No other     *)
(* crash leaves behind what the next run refuses.                           *)
PackStopsForCause ==
  (<>[][\A p \in Packers : ~Kill(p)]_packVars) =>
    \/ <>(\E p \in Packers : step[p] = "complete")
    \/ <>[](temps # {})
    \/ <>[](\E s \in Shards : Foreign(s))
    \/ ~OneSurfaceAtATime /\ <>[](\E s \in Shards : Stale(s))
=============================================================================
