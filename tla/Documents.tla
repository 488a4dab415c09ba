----------------------------- MODULE Documents -----------------------------
(***************************************************************************)
(* One document (documents.module.ts): the files on disk, its row, and the *)
(* rows of its versions. Disk and database share no transaction: a call    *)
(* writes the file first and removes it again when a row cannot be written.*)
(***************************************************************************)
EXTENDS Naturals

CONSTANTS
    Uploaders,      \* calls in flight
    MaxFiles        \* bound: files written

ASSUME DocumentsAssumption == MaxFiles \in Nat

VARIABLES
    files, written,     \* the files on disk; how many were ever written
    doc,                \* the document's row, or NoDoc
    versions,           \* its DocumentVersion rows
    docPc, file, base,  \* each call: step, the file it wrote, the version it read
    contents,           \* history: the files that have been the document's
    unheard,            \* history: files named by a write whose reply was lost
    excused             \* history: files that had a reason to be left behind

callDocVars == <<docPc, file, base>>
docVars == <<files, written, doc, versions, callDocVars, contents, unheard, excused>>

Files == 1..MaxFiles    \* numbered as they are written; 0 is none
NoDoc == [version |-> 0, file |-> 0]
DocSteps == {"idle", "upload", "newVersion", "insert", "list", "replace", "undo"}

DocTypeOK ==
    /\ written \in 0..MaxFiles
    /\ files \subseteq Files
    /\ doc \in [version : Nat, file : 0..MaxFiles]
    /\ versions \subseteq [version : Nat, file : Files]
    /\ docPc \in [Uploaders -> DocSteps]
    /\ file \in [Uploaders -> 0..MaxFiles]
    /\ base \in [Uploaders -> Nat]
    /\ contents \subseteq Files /\ unheard \subseteq Files /\ excused \subseteq Files

DocInit ==
    /\ files = {} /\ written = 0
    /\ doc = NoDoc /\ versions = {}
    /\ docPc = [c \in Uploaders |-> "idle"]
    /\ file = [c \in Uploaders |-> 0]
    /\ base = [c \in Uploaders |-> 0]
    /\ contents = {} /\ unheard = {} /\ excused = {}

-----------------------------------------------------------------------------
(* The calls *)

DocGoto(c, step) == docPc' = [docPc EXCEPT ![c] = step]

\* uploadFile of the document, once.
Upload(c) ==
    /\ docPc[c] = "idle" /\ doc = NoDoc /\ written = 0
    /\ \A d \in Uploaders : docPc[d] = "idle"
    /\ DocGoto(c, "upload")
    /\ UNCHANGED <<files, written, doc, versions, file, base, contents, unheard, excused>>

\* createVersion reads the document.
NewVersion(c) ==
    /\ docPc[c] = "idle" /\ doc # NoDoc
    /\ base' = [base EXCEPT ![c] = doc.version]
    /\ DocGoto(c, "newVersion")
    /\ UNCHANGED <<files, written, doc, versions, file, contents, unheard, excused>>

\* storage.save writes the bytes under a name of their own.
StoreFile(c) ==
    /\ docPc[c] \in {"upload", "newVersion"} /\ written < MaxFiles
    /\ written' = written + 1
    /\ files' = files \cup {written + 1}
    /\ file' = [file EXCEPT ![c] = written + 1]
    /\ DocGoto(c, IF docPc[c] = "upload" THEN "insert" ELSE "list")
    /\ UNCHANGED <<doc, versions, base, contents, unheard, excused>>

\* The disk refuses, perhaps with some of the bytes on it.
StoreFails(c) ==
    /\ docPc[c] \in {"upload", "newVersion"} /\ written < MaxFiles
    /\ written' = written + 1
    /\ files' \in {files, files \cup {written + 1}}
    /\ excused' = excused \cup {written + 1}
    /\ DocGoto(c, "idle")
    /\ UNCHANGED <<doc, versions, file, base, contents, unheard>>

\* What the database does when call c writes: the row of a new document ...
InsertDocument(c) ==
    /\ docPc[c] = "insert"
    /\ doc' = [version |-> 1, file |-> file[c]]
    /\ contents' = contents \cup {file[c]}
    /\ UNCHANGED versions

\* Mutant: the version is listed under the number that was read.
InsertVersion_OldNumber(c) ==
    /\ docPc[c] = "list"
    /\ versions' = versions \cup {[version |-> base[c], file |-> file[c]]}
    /\ UNCHANGED <<doc, contents>>

\* ... that of a version, for which the document need not be there ...
InsertVersion(c) ==
    /\ docPc[c] = "list"
    /\ versions' = versions \cup {[version |-> base[c] + 1, file |-> file[c]]}
    /\ UNCHANGED <<doc, contents>>

\* ... or the document's own row, which must be.
ReplaceFile(c) ==
    /\ docPc[c] = "replace" /\ doc # NoDoc
    /\ doc' = [version |-> base[c] + 1, file |-> file[c]]
    /\ contents' = contents \cup {file[c]}
    /\ UNCHANGED versions

\* Mutant: the document takes the file before the version is listed.
DocWrite_Swapped(c) ==
    \/ InsertDocument(c)
    \/ /\ docPc[c] = "list" /\ doc # NoDoc
       /\ doc' = [version |-> base[c] + 1, file |-> file[c]]
       /\ contents' = contents \cup {file[c]}
       /\ UNCHANGED versions
    \/ /\ docPc[c] = "replace"
       /\ versions' = versions \cup {[version |-> base[c] + 1, file |-> file[c]]}
       /\ UNCHANGED <<doc, contents>>

DocWrite(c) == InsertDocument(c) \/ InsertVersion(c) \/ ReplaceFile(c)

\* The write succeeds, and the call goes on or returns.
WriteRow(c) ==
    /\ DocWrite(c)
    /\ DocGoto(c, IF docPc[c] = "list" THEN "replace" ELSE "idle")
    /\ UNCHANGED <<files, written, file, base, unheard, excused>>

\* Mutant: an upload whose row cannot be written does not clean up.
WriteFails_NoCleanUp(c) ==
    /\ docPc[c] \in {"insert", "list", "replace"}
    /\ UNCHANGED <<doc, versions, contents, unheard>>
    /\ DocGoto(c, "idle")
    /\ UNCHANGED <<files, written, file, base, excused>>

\* The write throws: it did not happen, or it did and the reply was lost.
WriteFails(c) ==
    /\ docPc[c] \in {"insert", "list", "replace"}
    /\ \/ UNCHANGED <<doc, versions, contents, unheard>>
       \/ DocWrite(c) /\ unheard' = unheard \cup {file[c]}
    /\ DocGoto(c, "undo")
    /\ UNCHANGED <<files, written, file, base, excused>>

\* The catch removes the stored file; storage.delete swallows its own errors.
Undo(c) ==
    /\ docPc[c] = "undo"
    /\ \/ files' = files \ {file[c]} /\ UNCHANGED excused
       \/ UNCHANGED files /\ excused' = excused \cup {file[c]}
    /\ DocGoto(c, "idle")
    /\ UNCHANGED <<written, doc, versions, file, base, contents, unheard>>

\* delete removes the document's row, not its file, and leaves the rows of its
\* versions: the schema's "onDelete: NoAction" is no check in MongoDB.
DeleteDocument ==
    /\ doc # NoDoc
    /\ doc' = NoDoc
    /\ excused' = excused \cup {doc.file}
    /\ UNCHANGED <<files, written, versions, callDocVars, contents, unheard>>

\* The process dies, and every call in flight with it.
DocCrash ==
    /\ \E c \in Uploaders : docPc[c] # "idle"
    /\ docPc' = [c \in Uploaders |-> "idle"]
    /\ excused' = excused \cup {file[c] : c \in {d \in Uploaders : docPc[d] \in {"insert", "list", "replace", "undo"}}}
    /\ UNCHANGED <<files, written, doc, versions, file, base, contents, unheard>>

DocNext ==
    \/ \E c \in Uploaders :
        \/ Upload(c) \/ NewVersion(c) \/ StoreFile(c) \/ StoreFails(c)
        \/ WriteRow(c) \/ WriteFails(c) \/ Undo(c)
    \/ DeleteDocument \/ DocCrash

DocSpec == DocInit /\ [][DocNext]_docVars

-----------------------------------------------------------------------------
(* Properties *)

InFlight == {file[c] : c \in {d \in Uploaders : docPc[d] \in {"insert", "list", "replace", "undo"}}}

Named == {doc.file} \cup {v.file : v \in versions}

\* The document can be opened: its file is on disk, whatever its calls did to
\* each other, unless a write that was reported as failed had taken effect.
DocumentHasFile == doc # NoDoc => doc.file \in files \cup unheard

\* The file and the version of the document's row are those of a version row,
\* once it has any: two calls that read the same version may both write it, but
\* what one of them lists is what it puts in the document.
CurrentIsListed ==
    doc.version > 1 => \E v \in versions : v.version = doc.version /\ v.file = doc.file

\* The row, the disk and the list of versions agree on the document's file.
DocumentIsWhole == DocumentHasFile /\ CurrentIsListed

\* "otherwise every failed upload would leak an orphaned file": a file no row
\* names and no call is busy with was left by a crash, an error of the disk,
\* the deletion of the document, or is the file the first version replaced.
LeakHasCause ==
    \A f \in files \ (Named \cup InFlight) : f \in excused \/ f \in contents

\* "Uploads a replacement file and bumps the version, keeping history": a row
\* names every file the document has had. The code lists the new file only, and
\* forgets the one it replaces.
HistoryKept == doc # NoDoc => contents \subseteq Named

=============================================================================
