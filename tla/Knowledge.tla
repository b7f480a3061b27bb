------------------------------ MODULE Knowledge ------------------------------
(***************************************************************************)
(* Documents of the knowledge base (ai/rag/pipeline.js): ingest and        *)
(* deletion, each a sequence of calls to MongoDB, to the embedding         *)
(* provider and to Qdrant, any of which may fail, in a process that may    *)
(* die between two of them. What a search finds is what Qdrant holds.      *)
(*                                                                         *)
(* A call that fails may have been carried out, not at all, or, where it   *)
(* is about many chunks, in part: the error says nothing about it. The     *)
(* text, the chunking and the vectors are left out.                        *)
(***************************************************************************)
EXTENDS Integers

CONSTANTS
  Doc,            \* document ids
  Content,        \* contents, told apart by their contentHash
  MaxFailures     \* bound: failed calls and crashes

ASSUME KnowledgeAssumption == MaxFailures \in Nat

VARIABLES
  doc,       \* id -> [status, content, dims], status "none" if there is none
  chunks,    \* id -> "none", "some", "all": its KnowledgeChunk documents
  vectors,   \* id -> whether its points are in Qdrant
  ingest,    \* id -> what its ingest does next
  deletion,  \* id -> what its deletion does next
  sawDims,   \* id -> the deletion read a document with vectorDims
  sawReady,  \* id -> history: the deletion read a READY document
  mishaps,   \* history: id -> calls of its ingest that failed, and its death
  failures   \* failed calls and crashes so far

knowledgeVars == <<doc, chunks, vectors, ingest, deletion, sawDims, sawReady, mishaps, failures>>

NoDoc == [status |-> "none", content |-> "none", dims |-> FALSE]

KnowledgeInit ==
  /\ doc = [d \in Doc |-> NoDoc]
  /\ chunks = [d \in Doc |-> "none"]
  /\ vectors = [d \in Doc |-> FALSE]
  /\ ingest = [d \in Doc |-> "new"]
  /\ deletion = [d \in Doc |-> "none"]
  /\ sawDims = [d \in Doc |-> FALSE]
  /\ sawReady = [d \in Doc |-> FALSE]
  /\ mishaps = [d \in Doc |-> 0]
  /\ failures = 0

Exists(d) == doc[d].status # "none"
Ingest(d, step) == ingest' = [ingest EXCEPT ![d] = step]
Deletion(d, step) == deletion' = [deletion EXCEPT ![d] = step]

MayFail == failures < MaxFailures
Fails == MayFail /\ failures' = failures + 1
Works == UNCHANGED <<mishaps, failures>>
IngestFails(d) == Fails /\ mishaps' = [mishaps EXCEPT ![d] = @ + 1]

\* What a call about the chunks c may leave of them when it fails.
PartOf(c) == IF c = "none" THEN {"none"} ELSE {"none", "some", c}

deletionVars == <<deletion, sawDims, sawReady>>

-----------------------------------------------------------------------------
(* ingest.                                                                 *)

\* KnowledgeDocument.create: the unique index on { ownerId, contentHash }
\* refuses a content that is there already, READY or not.
CreateDocument(d, c) ==
  /\ ingest[d] = "new"
  /\ \A e \in Doc : doc[e].content # c
  /\ doc' = [doc EXCEPT ![d] = [status |-> "PROCESSING", content |-> c, dims |-> FALSE]]
  /\ Ingest(d, "embed") /\ Works
  /\ UNCHANGED <<chunks, vectors, deletionVars>>

\* chunkText and embedAll; from here on dims is known.
Embed(d) ==
  /\ ingest[d] = "embed"
  /\ Ingest(d, "chunks") /\ Works
  /\ UNCHANGED <<doc, chunks, vectors, deletionVars>>

\* dims is null: the vectors need no cleaning.
EmbedFails(d) ==
  /\ ingest[d] = "embed" /\ IngestFails(d)
  /\ Ingest(d, "clean only chunks")
  /\ UNCHANGED <<doc, chunks, vectors, deletionVars>>

InsertChunks(d) ==
  /\ ingest[d] = "chunks"
  /\ chunks' = [chunks EXCEPT ![d] = "all"]
  /\ Ingest(d, "upsert") /\ Works
  /\ UNCHANGED <<doc, vectors, deletionVars>>

InsertChunksFails(d) ==
  /\ ingest[d] = "chunks" /\ IngestFails(d)
  /\ \E part \in PartOf("all") : chunks' = [chunks EXCEPT ![d] = part]
  /\ Ingest(d, "clean chunks")
  /\ UNCHANGED <<doc, vectors, deletionVars>>

Upsert(d) ==
  /\ ingest[d] = "upsert"
  /\ vectors' = [vectors EXCEPT ![d] = TRUE]
  /\ Ingest(d, "save") /\ Works
  /\ UNCHANGED <<doc, chunks, deletionVars>>

\* Mutant: the error of the upsert is not waited for.
UpsertNotAwaited(d) ==
  /\ ingest[d] = "upsert" /\ IngestFails(d)
  /\ Ingest(d, "save")
  /\ UNCHANGED <<doc, chunks, vectors, deletionVars>>

\* Qdrant may have stored the points or not.
UpsertFails(d) ==
  /\ ingest[d] = "upsert" /\ IngestFails(d)
  /\ \E stored \in BOOLEAN : vectors' = [vectors EXCEPT ![d] = stored]
  /\ Ingest(d, "clean chunks")
  /\ UNCHANGED <<doc, chunks, deletionVars>>

StoreReady(d) == doc' = [doc EXCEPT ![d].status = "READY", ![d].dims = TRUE]

\* doc.save() of the READY document.
SaveReady(d) ==
  /\ ingest[d] = "save" /\ Exists(d)
  /\ StoreReady(d)
  /\ Ingest(d, "ingested") /\ Works
  /\ UNCHANGED <<chunks, vectors, deletionVars>>

\* MongoDB fails, with READY stored or not, or the document was deleted.
SaveReadyFails(d) ==
  /\ ingest[d] = "save"
  /\ \/ Exists(d) /\ IngestFails(d) /\ (StoreReady(d) \/ UNCHANGED doc)
     \/ ~Exists(d) /\ Works /\ UNCHANGED doc
  /\ Ingest(d, "clean chunks, dims set")
  /\ UNCHANGED <<chunks, vectors, deletionVars>>

Cleaning == {"clean only chunks", "clean chunks", "clean chunks, dims set"}

\* The catch block: KnowledgeChunk.deleteMany, its failure swallowed.
CleanChunks(d) ==
  /\ ingest[d] \in Cleaning
  /\ \/ chunks' = [chunks EXCEPT ![d] = "none"] /\ Works
     \/ /\ IngestFails(d)
        /\ \E part \in PartOf(chunks[d]) : chunks' = [chunks EXCEPT ![d] = part]
  /\ Ingest(d, CASE ingest[d] = "clean only chunks" -> "fail"
                 [] ingest[d] = "clean chunks" -> "clean vectors"
                 [] OTHER -> "clean vectors, dims set")
  /\ UNCHANGED <<doc, vectors, deletionVars>>

\* vectorStore.deleteByDocument, its failure swallowed too.
CleanVectors(d) ==
  /\ ingest[d] \in {"clean vectors", "clean vectors, dims set"}
  /\ \/ vectors' = [vectors EXCEPT ![d] = FALSE] /\ (Works \/ IngestFails(d))
     \/ UNCHANGED vectors /\ IngestFails(d)
  /\ Ingest(d, IF ingest[d] = "clean vectors" THEN "fail" ELSE "fail, dims set")
  /\ UNCHANGED <<doc, chunks, deletionVars>>

\* doc.save() of the FAILED document, with every field set on it so far. It
\* changes nothing if the document was deleted.
SaveFailed(d) ==
  /\ ingest[d] \in {"fail", "fail, dims set"}
  /\ \/ /\ Exists(d)
        /\ doc' = [doc EXCEPT ![d].status = "FAILED",
                              ![d].dims = ingest[d] = "fail, dims set"]
        /\ Works \/ IngestFails(d)
     \/ ~Exists(d) /\ Works /\ UNCHANGED doc
     \/ IngestFails(d) /\ UNCHANGED doc
  /\ Ingest(d, "failed")
  /\ UNCHANGED <<chunks, vectors, deletionVars>>

\* What an ingest ends with: its answer, its error, or the death of its process.
Ends == {"ingested", "failed", "died"}

\* The process dies, or create() has thrown though the document is stored:
\* nobody goes on with the ingest.
IngestDies(d) ==
  /\ ingest[d] \notin Ends \cup {"new"} /\ IngestFails(d)
  /\ Ingest(d, "died")
  /\ UNCHANGED <<doc, chunks, vectors, deletionVars>>

-----------------------------------------------------------------------------
(* deleteDocument.                                                         *)

DeleteRead(d) ==
  /\ deletion[d] \in {"none", "failed"} /\ Exists(d)
  /\ sawDims' = [sawDims EXCEPT ![d] = doc[d].dims]
  /\ sawReady' = [sawReady EXCEPT ![d] = doc[d].status = "READY"]
  /\ Deletion(d, "vectors")
  /\ UNCHANGED <<doc, chunks, vectors, ingest, mishaps, failures>>

\* Mutant: the vectors are left to themselves.
Forgets(d) == FALSE

\* if (doc.vectorDims)
HasVectors(d) == sawDims[d]

DeleteVectors(d) ==
  /\ deletion[d] = "vectors"
  /\ vectors' = [vectors EXCEPT ![d] = @ /\ ~HasVectors(d)]
  /\ Deletion(d, "chunks")
  /\ UNCHANGED <<doc, chunks, ingest, sawDims, sawReady, mishaps, failures>>

DeleteChunks(d) ==
  /\ deletion[d] = "chunks"
  /\ chunks' = [chunks EXCEPT ![d] = "none"]
  /\ Deletion(d, "document")
  /\ UNCHANGED <<doc, vectors, ingest, sawDims, sawReady, mishaps, failures>>

DeleteDocument(d) ==
  /\ deletion[d] = "document"
  /\ doc' = [doc EXCEPT ![d] = NoDoc]
  /\ Deletion(d, "done")
  /\ UNCHANGED <<chunks, vectors, ingest, sawDims, sawReady, mishaps, failures>>

\* A call fails, carried out or not, or the process dies: the user may ask again.
DeleteFails(d) ==
  /\ Fails
  /\ \/ /\ deletion[d] = "vectors"
        /\ UNCHANGED vectors \/ vectors' = [vectors EXCEPT ![d] = @ /\ ~HasVectors(d)]
        /\ UNCHANGED <<doc, chunks>>
     \/ /\ deletion[d] = "chunks"
        /\ \E part \in PartOf(chunks[d]) : chunks' = [chunks EXCEPT ![d] = part]
        /\ UNCHANGED <<doc, vectors>>
     \/ /\ deletion[d] = "document"
        /\ UNCHANGED doc \/ doc' = [doc EXCEPT ![d] = NoDoc]
        /\ UNCHANGED <<chunks, vectors>>
  /\ Deletion(d, "failed")
  /\ UNCHANGED <<ingest, sawDims, sawReady, mishaps>>

-----------------------------------------------------------------------------

IngestStep(d) ==
  \/ \E c \in Content : CreateDocument(d, c)
  \/ Embed(d) \/ InsertChunks(d) \/ Upsert(d) \/ SaveReady(d)
  \/ EmbedFails(d) \/ InsertChunksFails(d) \/ UpsertFails(d) \/ SaveReadyFails(d)
  \/ CleanChunks(d) \/ CleanVectors(d) \/ SaveFailed(d) \/ IngestDies(d)

DeleteStep(d) ==
  \/ DeleteRead(d) \/ DeleteVectors(d) \/ DeleteChunks(d) \/ DeleteDocument(d)
  \/ DeleteFails(d)

KnowledgeNext == \E d \in Doc : IngestStep(d) \/ DeleteStep(d)

KnowledgeSpec == KnowledgeInit /\ [][KnowledgeNext]_knowledgeVars

-----------------------------------------------------------------------------
(* Properties.                                                             *)

\* Once an ingest has ended its document's status is true. An answered ingest
\* has left it READY, with all its chunks in MongoDB and its vectors in Qdrant,
\* until a deletion begins. And if no more than one call of the ingest failed,
\* or its process died once: only an answered one is READY, "on failure it
\* becomes FAILED and its vectors are removed" (pipeline.js:61-63), and only one
\* that nobody goes on with is PROCESSING for good. More failures may leave FAILED
\* with vectors (the cleanup swallows its errors), or READY without.
StatusIsTrue ==
  \A d \in Doc : ingest[d] \in Ends =>
    /\ ingest[d] = "ingested" /\ deletion[d] = "none" =>
         doc[d].status = "READY" /\ chunks[d] = "all" /\ vectors[d]
    /\ mishaps[d] <= 1 =>
         /\ doc[d].status = "READY" => ingest[d] = "ingested"
         /\ doc[d].status = "FAILED" => chunks[d] = "none" /\ ~vectors[d]
         /\ doc[d].status = "PROCESSING" => ingest[d] = "died"

\* A document that was READY when its deletion began leaves nothing behind,
\* however often the deletion was interrupted.
DeleteIsComplete ==
  \A d \in Doc : deletion[d] = "done" /\ sawReady[d] =>
    chunks[d] = "none" /\ ~vectors[d]

\* "Delete a document and its vectors" (src/docs/openapi.yaml:245): once both the
\* deletion and the ingest have ended, no search finds the document.
DeletedNotSearchable ==
  \A d \in Doc : deletion[d] = "done" /\ ingest[d] \in Ends => ~vectors[d]
=============================================================================
