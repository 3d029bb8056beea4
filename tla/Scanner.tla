--------------------------------- MODULE Scanner ---------------------------------
(***************************************************************************)
(* The scanner of uploaded packages (server/scanner.ts): the checks on the *)
(* name, the declared type and the first bytes, and the callbacks through  *)
(* which a ZIP archive is read one entry at a time.  The archive reader    *)
(* (yauzl with lazyEntries and validateEntrySizes) reports one event after *)
(* each readEntry(): an entry, the end, or an error; the stream of an      *)
(* entry ends or fails.  A file is                                         *)
(*   [ext, mime, magic, secret]: extension class, declared type, what the  *)
(*     first bytes say, whether the text of the file holds a secret,       *)
(* an archive a sequence of entries                                        *)
(*   [dir, size, packed, encrypted, method, name, secret]                  *)
(* where name is "plain", "slip", "symlink" or "suspicious".  Definitions  *)
(* named X_Fault are faulty variants of X, used by no action.              *)
(***************************************************************************)
EXTENDS Naturals, Sequences, FiniteSetsExt

CONSTANTS
    Files,          \* the files that may be uploaded
    Archives,       \* what the reader may find in a ZIP file
    MaxEntries,     \* maxEntries
    MaxEntryBytes,  \* maxEntryBytes
    MaxBytes,       \* maxUncompressedBytes
    MaxRatio        \* maxCompressionRatio

ScannerAssumption ==
    {MaxEntries, MaxEntryBytes, MaxBytes, MaxRatio} \subseteq Nat \ {0}

VARIABLES
    file,       \* the upload
    archive,    \* the entries of its central directory
    phase,      \* start, reading (readEntry called), streaming, settled
    entries,    \* entry events so far
    total,      \* totalUncompressed
    findings,   \* findings, as a set: the result is deduplicated
    scanned,    \* entries whose stream ended and whose text was scanned
    ok          \* ScanResult.ok once settled, FALSE before

vars == <<file, archive, phase, entries, total, findings, scanned, ok>>

Init ==
    /\ file \in Files
    /\ archive \in Archives
    /\ phase = "start"
    /\ entries = 0
    /\ total = 0
    /\ findings = {}
    /\ scanned = {}
    /\ ok = FALSE

\* finish() and the return statement.
Settle(found) ==
    /\ phase' = "settled"
    /\ findings' = found
    /\ ok' = (found = {})

-------------------------------------------------------------------------------
(* Before the archive is opened *)

Secrets(secret) == IF secret THEN {"secret"} ELSE {}

\* validateMagicBytes returns at the first failure.
Magic(f) ==
    IF (f.ext = "zip" \/ f.mime = "zip") /\ f.magic # "zip"
    THEN {"fake_zip_extension"}
    ELSE IF (f.ext = "gz" \/ f.mime = "gzip") /\ f.magic # "gzip"
    THEN {"fake_gzip_extension"}
    ELSE IF f.ext = "txt" /\ f.magic # "text"
    THEN {"fake_text_extension"}
    ELSE IF f.ext \notin {"zip", "txt", "md", "tar", "gz"}
    THEN {"extension_not_allowed"}
    ELSE {}

Unsupported(f) == f.ext \in {"tar", "gz"} \/ f.mime \in {"gzip", "tar"}

RejectFormat ==
    /\ phase = "start"
    /\ Unsupported(file)
    /\ Settle(Magic(file) \cup {"archive_format_not_supported"})
    /\ UNCHANGED <<file, archive, entries, total, scanned>>

ScanText ==
    /\ phase = "start"
    /\ ~Unsupported(file)
    /\ file.ext # "zip"
    /\ Settle(Magic(file) \cup Secrets(file.secret))
    /\ UNCHANGED <<file, archive, entries, total, scanned>>

OpenArchive ==
    /\ phase = "start"
    /\ ~Unsupported(file)
    /\ file.ext = "zip"
    /\ file.magic = "zip"
    /\ phase' = "reading"
    /\ findings' = Magic(file)
    /\ UNCHANGED <<file, archive, entries, total, scanned, ok>>

BadZip ==
    /\ phase = "start"
    /\ ~Unsupported(file)
    /\ file.ext = "zip"
    /\ Settle(Magic(file) \cup {"bad_zip"})
    /\ UNCHANGED <<file, archive, entries, total, scanned>>

-------------------------------------------------------------------------------
(* The callbacks of the reader *)

\* What the entry handler adds for the n-th entry e, with sum bytes so far.
Flaws(e, n, sum) ==
    { x \in {"too_many_entries", "uncompressed_size_limit",
             "compression_ratio_limit", "encrypted_entry",
             "unsupported_compression", "slip", "symlink", "suspicious"} :
        \/ x = "too_many_entries" /\ n > MaxEntries
        \/ x = "uncompressed_size_limit" /\ (e.size > MaxEntryBytes \/ sum > MaxBytes)
        \/ /\ x = "compression_ratio_limit"
           /\ IF e.packed = 0 THEN e.size > 0 ELSE e.size > MaxRatio * e.packed
        \/ x = "encrypted_entry" /\ e.encrypted
        \/ x = "unsupported_compression" /\ e.method \notin {0, 8}
        \/ x = e.name }

\* findings.includes(...): an earlier entry's finding skips this one too.
Skip(e, found) ==
    \/ e.dir
    \/ found \cap {"too_many_entries", "uncompressed_size_limit",
                   "encrypted_entry", "unsupported_compression"} # {}

\* `return next()` or openReadStream.
AfterEntry(e, found) == IF Skip(e, found) THEN "reading" ELSE "streaming"

Entry ==
    /\ phase = "reading"
    /\ entries < Len(archive)
    /\ LET e == archive[entries + 1]
           found == findings \cup Flaws(e, entries + 1, total + e.size)
       IN /\ entries' = entries + 1
          /\ total' = total + e.size
          /\ findings' = found
          /\ phase' = AfterEntry(e, found)
    /\ UNCHANGED <<file, archive, scanned, ok>>

\* openReadStream fails, or the stream does: a bad local header, data that
\* does not inflate, more or fewer bytes than the directory says.
StreamFails_Silent ==
    /\ phase = "streaming"
    /\ phase' = "reading"
    /\ UNCHANGED <<file, archive, entries, total, findings, scanned, ok>>

StreamFails ==
    /\ phase = "streaming"
    /\ findings' = findings \cup {"zip_entry_read_error"}
    /\ phase' = "reading"
    /\ UNCHANGED <<file, archive, entries, total, scanned, ok>>

StreamEnds ==
    /\ phase = "streaming"
    /\ findings' = findings \cup Secrets(archive[entries].secret)
    /\ scanned' = scanned \cup {entries}
    /\ phase' = "reading"
    /\ UNCHANGED <<file, archive, entries, total, ok>>

ReadFails ==
    /\ phase = "reading"
    /\ Settle(findings \cup {"zip_read_error"})
    /\ UNCHANGED <<file, archive, entries, total, scanned>>

End ==
    /\ phase = "reading"
    /\ entries = Len(archive)
    /\ Settle(findings)
    /\ UNCHANGED <<file, archive, entries, total, scanned>>

-------------------------------------------------------------------------------
Next ==
    \/ RejectFormat \/ ScanText \/ OpenArchive \/ BadZip
    \/ Entry \/ StreamFails \/ StreamEnds \/ ReadFails \/ End

Spec == Init /\ [][Next]_vars

\* The reader answers every request: each callback fires in the end.
FairSpec == Spec /\ WF_vars(Next)

-------------------------------------------------------------------------------
(* Properties *)

FindingNames ==
    {"fake_zip_extension", "fake_gzip_extension", "fake_text_extension",
     "extension_not_allowed", "archive_format_not_supported", "secret",
     "bad_zip", "too_many_entries", "uncompressed_size_limit",
     "compression_ratio_limit", "encrypted_entry", "unsupported_compression",
     "slip", "symlink", "suspicious", "zip_entry_read_error", "zip_read_error"}

\* Every variable holds a value the code can give it.
TypeOK ==
    /\ file \in Files
    /\ archive \in Archives
    /\ phase \in {"start", "reading", "streaming", "settled"}
    /\ entries \in 0..Len(archive)
    /\ total \in Nat
    /\ findings \subseteq FindingNames
    /\ scanned \subseteq 1..entries
    /\ ok \in BOOLEAN
    /\ ok => phase = "settled" /\ findings = {}

\* The promise of "ok": a ZIP file passes only after every entry was listed,
\* the text of every file in it was read to its end, no entry has a flaw, and
\* the whole is within the limits.
AcceptedIsScanned ==
    ok /\ file.ext = "zip" =>
        LET Seen == DOMAIN archive
        IN /\ entries = Len(archive)
           /\ Len(archive) <= MaxEntries
           /\ MapThenSumSet(LAMBDA i : archive[i].size, Seen) <= MaxBytes
           /\ \A i \in Seen :
                /\ archive[i].name = "plain"
                /\ ~archive[i].encrypted
                /\ ~archive[i].dir => i \in scanned /\ ~archive[i].secret

\* A package on sale is what its name, its declared type and its first bytes
\* all say, of a kind whose whole content is looked at.
HeaderAgrees ==
    ok => /\ file.ext \in {"zip", "txt", "md"}
          /\ file.mime \in {"zip", "plain"}
          /\ "zip" \in {file.ext, file.mime} => file.magic = "zip"
          /\ file.ext = "txt" => file.magic = "text"
          /\ file.ext # "zip" => ~file.secret

\* What is inflated stays within the limits whatever the archive holds: the
\* streams that were opened belong to the first MaxEntries entries and
\* declare at most MaxBytes together, MaxEntryBytes each.
BoundedInflation ==
    LET Opened == scanned \cup (IF phase = "streaming" THEN {entries} ELSE {})
    IN /\ Opened \subseteq 1..MaxEntries
       /\ MapThenSumSet(LAMBDA i : archive[i].size, Opened) <= MaxBytes
       /\ \A i \in Opened : archive[i].size <= MaxEntryBytes

\* The upload request that waits for the scan goes on: no archive leaves the
\* reader without a further readEntry() or a result.
ScanEnds == <>(phase = "settled")
===============================================================================
