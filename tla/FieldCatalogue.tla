--------------------------- MODULE FieldCatalogue ---------------------------
(***************************************************************************)
(* What a report descriptor parser is for, with no parsing: a catalogue of *)
(* fields that is listed, or asked for the first field of a type below a   *)
(* usage path.                                                             *)
(***************************************************************************)
EXTENDS Naturals, Sequences, SequencesExt

CONSTANT None

VARIABLES
    fields,     \* the catalogue
    ask,        \* the question, None between two questions
    answer      \* the fields that answer the last one

catalogueVars == <<fields, ask, answer>>

Fits(field, path, type) ==
    path # <<>> /\ field.type = type /\ IsPrefix(path, field.path)

\* The first field that fits, in a sequence; the empty sequence if none does.
FirstFit(path, type) ==
    LET found == {k \in DOMAIN fields : Fits(fields[k], path, type)}
    IN  IF found = {} THEN <<>>
        ELSE <<fields[CHOOSE k \in found : \A j \in found : k <= j]>>

CatalogueInit == ask = None /\ answer = <<>>

Ask == ask = None /\ ask' # None /\ answer' = <<>> /\ UNCHANGED fields

Reply ==
    /\ ask # None
    /\ ask' = None
    /\ answer' = IF ask.kind = "list" THEN fields ELSE FirstFit(ask.path, ask.type)
    /\ UNCHANGED fields

\* What is never answered wrong, and that each question is answered
CatalogueSafety == CatalogueInit /\ [][Ask \/ Reply]_catalogueVars

CatalogueSpec == CatalogueSafety /\ WF_catalogueVars(Reply)
=============================================================================
