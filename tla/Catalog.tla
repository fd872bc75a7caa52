------------------------------ MODULE Catalog ------------------------------
(***************************************************************************)
(* The vocabulary the pipeline is written in: the kinds of database object *)
(* (internal/catalog), what is read about one, the content fingerprint     *)
(* (internal/fingerprint) and the two staleness rules (internal/plan).     *)
(* Everything here is a pure function of its arguments.                    *)
(***************************************************************************)
EXTENDS Integers

CONSTANTS
  None,        \* an absent value: no object, no row, no cache entry, no sentence
  SampleRows,  \* how many rows the describer is sent (25 in the code)
  Overlong     \* texts whose redacted form is longer than the cache keeps

ASSUME SampleRowsAssumption == SampleRows \in Nat

-----------------------------------------------------------------------------
(* Kinds, in the order their catalog files are written.                    *)

Catalogs == <<"table", "view", "procedure", "function", "synonym">>
Kinds == {"table", "view", "procedure", "function", "synonym"}

Describable == Kinds \ {"synonym"}               \* earns a generated sentence
Modules     == {"view", "procedure", "function"} \* carries a body
Detailed    == {"table", "view"}                 \* gets a file of columns

-----------------------------------------------------------------------------
(* The modify signal.  An engine that supplies none leaves it empty, and an *)
(* empty signal proves nothing, not even against another empty one.         *)

NoSignal == 0
Same(a, b) == a # NoSignal /\ a = b

-----------------------------------------------------------------------------
(* What is read about an object.  A structure is assembled from several     *)
(* queries; two stand for them.  A body is the redacted text, how its lines *)
(* end, and whether its tail was cut off.                                   *)

EmptyStructure == [columns |-> "", indexes |-> ""]
EmptyBody      == [text |-> "", eol |-> "lf", cut |-> FALSE]

\* What the cache keeps of a body: at most BodyChars characters.
Trim(body) == IF body.text \in Overlong THEN [body EXCEPT !.cut = TRUE] ELSE body

\* Mutant: the definition hashed as it came.
NormalizeNothing(body) == body

\* Line endings and trailing white space do not count as content.
Normalize(body) == [text |-> body.text, cut |-> body.cut]

\* Mutant: the row count itself hashed.
SampleDepthUncapped(rows) == rows

SampleDepth(rows) ==
  IF rows < 0 THEN 0 ELSE IF rows > SampleRows THEN SampleRows ELSE rows

\* The hash of one object's content, standing for the hash's preimage: two
\* fingerprints are equal exactly when what was hashed is.
Fingerprint(object, structure, body) ==
  IF object.kind = "table"
  THEN [of |-> "structure", text |-> structure,
        triggers |-> object.triggers, depth |-> SampleDepth(object.rows)]
  ELSE IF object.kind \in Modules
  THEN [of |-> "body", text |-> Normalize(body), triggers |-> 0, depth |-> 0]
  ELSE [of |-> "target", text |-> [structure EXCEPT !.indexes = ""],
        triggers |-> 0, depth |-> 0]

-----------------------------------------------------------------------------
(* The first tier of staleness: what has to be fetched, given the row the   *)
(* previous build left (None when there is none).                           *)

IsNew(prior) == prior = None
IsModified(object, prior) == ~Same(object.modified, prior.modified)
IsResampled(object, prior) ==
  /\ object.kind = "table"
  /\ SampleDepth(prior.rows) # SampleDepth(object.rows)

Refetch(object, prior) ==
  IsNew(prior) \/ IsModified(object, prior) \/ IsResampled(object, prior)

\* Mutant: a sentence kept because it is there, whatever the content hashes to.
UnchangedBySentence(fingerprint, prior) ==
  prior # None /\ prior.description # None

(* The second tier: an entry keeps the sentence it has only when its content *)
(* hashes the same and there is a sentence to keep.                          *)
Unchanged(fingerprint, prior) ==
  /\ prior # None
  /\ prior.fingerprint = fingerprint
  /\ prior.description # None
=============================================================================
