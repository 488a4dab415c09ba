----------------------------- MODULE BrandImport -----------------------------
(***************************************************************************)
(* The brand profile of one organization, written by people and by imports *)
(* of the company's website. An import reads the site for a long time,     *)
(* reads the profile, decides field by field what it may write, and writes *)
(* it in one call that knows nothing of what was written in between.       *)
(***************************************************************************)
EXTENDS Naturals

CONSTANTS
    BrandFields,         \* fields of the profile, companyName among them
    NameField,           \* companyName, which a profile must have
    UrlField,            \* websiteUrl, the address of the site
    Importers,      \* imports in flight
    MaxWordings       \* bound: edits by people

ASSUME BrandAssumption == NameField \in BrandFields /\ UrlField \in BrandFields \ {NameField} /\ MaxWordings \in Nat

\* The fields an import reads the site for, and looks at the profile for first.
ReadFields == BrandFields \ {UrlField}

VARIABLES
    profile,        \* what each field holds: "empty", a "human" wording, or what the "site" said
    exists,         \* is there a BrandProfile row
    import,         \* each import: step, options, findings, what it has read of the profile
    wordings,       \* edits by people so far
    kept            \* history: the fields whose human wording must still be there

brandVars == <<profile, exists, import, wordings, kept>>

NoImport == [at |-> "idle"]
Contents == {"empty", "human", "site"}

\* What the pages give for a field: nothing, a low-confidence guess, or a value.
\* pickInformativeLinks, detectFromMarkup, extractFields and parseFields decide;
\* what stands in the markup has no confidence to be low.
Findings == [ReadFields -> {"none", "low", "sure"}]

BrandTypeOK ==
    /\ profile \in [BrandFields -> Contents] /\ exists \in BOOLEAN
    /\ wordings \in 0..MaxWordings /\ kept \subseteq BrandFields
    /\ \A i \in Importers : import[i] = NoImport \/
        /\ import[i].at \in {"site", "profile", "check", "write"}
        /\ {import[i].save, import[i].overwrite, import[i].existing} \subseteq BOOLEAN
        /\ import[i].found \cup import[i].set \cup import[i].crossed \subseteq ReadFields

BrandInit ==
    /\ profile = [f \in BrandFields |-> "empty"] /\ exists = FALSE
    /\ import = [i \in Importers |-> NoImport]
    /\ wordings = 0 /\ kept = {}

-----------------------------------------------------------------------------
(* People *)

\* PUT creates or changes the row, PATCH changes a row that is there; both write
\* the fields that were sent, and a new row has a name. A field may be cleared.
Write_(fields, content) ==
    /\ exists \/ (NameField \in fields /\ content = "human")
    /\ exists' = TRUE
    /\ profile' = [f \in BrandFields |-> IF f \in fields THEN content ELSE profile[f]]
    /\ kept' = IF content = "human" THEN kept \cup fields ELSE kept \ fields
    /\ import' = [i \in Importers |->
        IF import[i].at \in {"check", "write"} THEN [import[i] EXCEPT !.crossed = @ \cup (fields \cap ReadFields)] ELSE import[i]]

EditProfile ==
    /\ wordings < MaxWordings /\ wordings' = wordings + 1
    /\ \E fields \in SUBSET BrandFields \ {{}}, content \in {"human", "empty"} :
        (NameField \in fields => content = "human") /\ Write_(fields, content)

-----------------------------------------------------------------------------
(* importFromWebsite *)

Import(i) ==
    /\ import[i] = NoImport
    /\ \E save, overwrite \in BOOLEAN :
        import' = [import EXCEPT ![i] = [at |-> "site", save |-> save, overwrite |-> overwrite, existing |-> FALSE,
                                         found |-> {}, set |-> {}, crossed |-> {}]]
    /\ UNCHANGED <<profile, exists, wordings, kept>>

\* An address that is refused or a home page that cannot be read ends the import,
\* and so does finding nothing or being asked not to save. A guess counts as
\* something found, and is not kept.
ReadSite(i) ==
    /\ import[i].at = "site"
    /\ \/ \E given \in Findings :
            /\ import[i].save /\ \E f \in ReadFields : given[f] # "none"
            /\ import' = [import EXCEPT ![i].at = "profile", ![i].found = {f \in ReadFields : given[f] = "sure"}]
       \/ import' = [import EXCEPT ![i] = NoImport]
    /\ UNCHANGED <<profile, exists, wordings, kept>>

ReadProfile(i) ==
    /\ import[i].at = "profile"
    /\ import' = [import EXCEPT ![i].at = IF exists THEN "check" ELSE "write", ![i].existing = exists,
                                ![i].set = {f \in ReadFields : profile[f] # "empty"}]
    /\ UNCHANGED <<profile, exists, wordings, kept>>

\* BrandService.update looks for the row again; profiles are never deleted.
FindProfile(i) ==
    /\ import[i].at = "check"
    /\ import' = [import EXCEPT ![i].at = "write"]
    /\ UNCHANGED <<profile, exists, wordings, kept>>

\* Mutant: the profile that was read is not looked at.
Saved_Everything(i) == import[i].found

\* The fields that persist writes: sure of, and not set unless told to overwrite.
Saved(i) == {f \in import[i].found : f \notin import[i].set \/ import[i].overwrite}

\* The address the import was given is written whatever the profile had. A profile
\* that was not there gets a name, the one that was found or the domain; if one has
\* been made since, upsert writes into it.
Written(i) == Saved(i) \cup {UrlField} \cup (IF import[i].existing THEN {} ELSE {NameField})

Persist(i) ==
    /\ import[i].at = "write"
    /\ profile' = [f \in BrandFields |-> IF f \in Written(i) THEN "site" ELSE profile[f]]
    /\ exists' = TRUE
    /\ kept' = kept \ {f \in Written(i) : f = UrlField \/ import[i].overwrite \/ f \in import[i].crossed}
    /\ import' = [import EXCEPT ![i] = NoImport]
    /\ UNCHANGED wordings

BrandNext ==
    \/ EditProfile
    \/ \E i \in Importers : Import(i) \/ ReadSite(i) \/ ReadProfile(i) \/ FindProfile(i) \/ Persist(i)

BrandSpec == BrandInit /\ [][BrandNext]_brandVars

-----------------------------------------------------------------------------
(* Properties *)

\* "Human edits win": what a person wrote into a field stays until a person
\* writes it again or an import is told to overwrite, unless the person wrote
\* between an import's reading of the profile and its write. The address of the
\* website is left out of it: every import that saves writes the one it was given.
HumanEditsWin == \A f \in kept : profile[f] = "human"
=============================================================================
