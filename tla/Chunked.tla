------------------------------ MODULE Chunked ------------------------------
(***************************************************************************)
(* Layers whose files can be fetched one by one (pkg/chunked): the         *)
(* compressor that writes a blob with a manifest of its files, and the     *)
(* differ that unpacks one, taking what it can from the other layers, from *)
(* an OSTree repository or from the host, and the rest from the blob.      *)
(*                                                                         *)
(* The blob is a sequence of cells: a header or a manifest is one cell and *)
(* a file's content is a cell for each unit of its size, compressed apart. *)
(* A file's content is a number, which is also its size, and so the digest *)
(* of the content; 0 is the empty file.  Owner, mode and attributes are    *)
(* one number; times are left out.  An entry is a directory or a whiteout  *)
(* ("dir"), a regular file, a hard link, a symbolic link, or a device or   *)
(* a fifo ("special"), for which ApplyDiff makes nothing.                  *)
(***************************************************************************)
EXTENDS Integers, Sequences, FiniteSets, SequencesExt

CONSTANTS
    Format,          \* "zstd", "estargz"
    MaxEntries, MaxContent,
    MaxChunks,       \* maxNumberMissingChunks
    MinRequest,      \* the request that must not be refused: 64
    MaxFaults, MaxRefusals,
    None

VARIABLES
    tar,             \* the layer: a sequence of entries
    format, blob,
    hardLinks, hostDedup,    \* the pull options
    idRemap,         \* the options ask for owners other than those of the manifest
    source,          \* the file of another layer and of the host, or None: content, attr, and
                     \* the attributes that the other layer's manifest says it has
    toc,             \* the entries of the manifest
    dest,            \* per entry: the file made for it, or None
    missing,         \* missingChunks
    request,         \* chunksToRequest
    pc, at,          \* the step of ApplyDiff, and its entry
    refusals, faults,
    was              \* the other files as they were

vars == <<tar, format, blob, hardLinks, hostDedup, idRemap, source, toc, dest, missing, request, pc, at,
          refusals, faults, was>>
config == <<tar, format, blob, hardLinks, hostDedup, idRemap, was>>

-----------------------------------------------------------------------------
(* The blob. *)
Data(c) == [k \in 1..c |-> <<"data", c, k>>]
Size(e) == IF e.type = "reg" THEN e.content ELSE 0

\* writeZstdChunkedStream: the compression restarts before and after what a file has, so
\* that it can be read by itself.
Cells(files) == FlattenSeq([i \in 1..Len(files) |-> <<<<"header">>>> \o Data(Size(files[i]))])
startAtHeader(files, i) == Len(Cells(SubSeq(files, 1, i - 1)))

Start(files, i) == Len(Cells(SubSeq(files, 1, i - 1))) + 1

\* The manifest: for estargz it has no ends.
Metadata(files, f) ==
    [i \in 1..Len(files) |->
        [entry  |-> i, attr |-> files[i].attr,
         Offset |-> IF Size(files[i]) > 0 THEN Start(files, i) ELSE 0,
         EndOffset |-> IF Size(files[i]) > 0 /\ f = "zstd" THEN Start(files, i) + Size(files[i]) ELSE 0]]

\* WriteZstdChunkedManifest: the manifest and where it is, each in a frame that is skipped.
WriteManifest(files, f) ==
    LET offset == Len(Cells(files)) + 1 IN
    Cells(files) \o <<<<"skip">>, <<"manifest", Metadata(files, f)>>, <<"skip">>, <<"footer", offset>>>>

\* A range of the blob, from an offset that counts from 0.
GetBlobAt(chunk) == SubSeq(blob, chunk.Offset + 1, chunk.Offset + chunk.Length)

\* readZstdChunkedManifest, readEstargzChunkedManifest: the position comes from an annotation
\* or from the footer, and the digest of the manifest is checked.
ManifestOffset == blob[Len(blob)][2]
ManifestAt(offset) == blob[offset + 1]

\* mergeTocEntries, the ends: of those that have none, the start of the next.
ownOffsets(entries, tocOffset) ==
    [i \in 1..Len(entries) |-> [entries[i] EXCEPT !.EndOffset = IF @ = 0 THEN entries[i].Offset ELSE @]]

EndOffsets(entries, tocOffset) ==
    LET last[i \in 1..Len(entries) + 1] ==
            IF i > Len(entries) THEN tocOffset
            ELSE IF entries[i].Offset # 0 THEN entries[i].Offset ELSE last[i + 1]
    IN [i \in 1..Len(entries) |->
            [entries[i] EXCEPT !.EndOffset = IF @ = 0 THEN last[i + 1] ELSE @]]

\* The attributes with another owner: of two that there are, the other one.
toContainer(attr) == 3 - attr

maybeDoIDRemap(entries) ==
    [i \in 1..Len(entries) |->
        [entries[i] EXCEPT !.attr = IF idRemap THEN toContainer(@) ELSE @]]

-----------------------------------------------------------------------------
(* What the request asks for. *)
Chunk(i) ==
    [Offset |-> toc[i].Offset, Length |-> toc[i].EndOffset - toc[i].Offset,
     Files  |-> <<[gap |-> 0, file |-> i]>>]

getGap(chunks, i) == chunks[i].Offset - (chunks[i - 1].Offset + chunks[i - 1].Length)

\* The merged chunk reads over the gap between the two.
joinWithoutGap(a, b, gap) ==
    [Offset |-> a.Offset, Length |-> a.Length + gap + b.Length, Files |-> a.Files \o b.Files]

Join(a, b, gap) ==
    [Offset |-> a.Offset, Length |-> a.Length + gap + b.Length,
     Files  |-> a.Files \o (IF gap > 0 THEN <<[gap |-> gap, file |-> None]>> ELSE <<>>) \o b.Files]

mergeMissingChunks(chunks, target) ==
    IF Len(chunks) <= target THEN chunks
    ELSE LET gaps   == SortSeq([i \in 1..Len(chunks) - 1 |-> getGap(chunks, i + 1)], <)
             limit  == gaps[Len(chunks) - target]
             merged[i \in 1..Len(chunks)] ==
                IF i = 1 THEN <<chunks[1]>>
                ELSE LET gap == getGap(chunks, i) IN
                     IF gap > limit THEN Append(merged[i - 1], chunks[i])
                     ELSE Front(merged[i - 1]) \o <<Join(Last(merged[i - 1]), chunks[i], gap)>>
         IN merged[Len(chunks)]

-----------------------------------------------------------------------------
(* Files of the destination: content, attributes, and whose file a hard link shares. *)
Fail == pc' = "failed" /\ UNCHANGED at
NextEntry == pc' = "entry" /\ at' = at + 1
Fault == faults < MaxFaults /\ faults' = faults + 1
\* openFileUnderRoot with newFileFlags: a file is made where there is none.
CanCreate(files, i) == files[i] = None
\* setFileAttrs, unless the file is one of another layer.
Reg(content, attr, inode) == [content |-> content, attr |-> attr, inode |-> inode]

\* canDedupMetadataWithHardLink, canDedupFileWithHardLink: a link has the attributes of the
\* file that it shares.  Those of a file of another layer are taken from the manifest of
\* that layer, as it was before the owners were remapped; those of the host's are its own.
linkAlways(i, from) == hardLinks

canDedup(i, from) == hardLinks /\ source[from].said = toc[i].attr

\* copyFileContent: a link replaces what is there; a copy is made where no link can be or
\* where linking fails, if nothing is there, and gets its attributes (finalizeFile).
CopyFrom(i, from) ==
    /\ source[from] # None
    /\ \/ /\ canDedup(i, from)
          /\ dest' = [dest EXCEPT ![i] = Reg(source[from].content, source[from].attr, from)]
          /\ UNCHANGED faults
       \/ /\ CanCreate(dest, i)
          /\ IF canDedup(i, from) THEN Fault ELSE UNCHANGED faults
          /\ dest' = [dest EXCEPT ![i] = Reg(source[from].content, toc[i].attr, None)]
\* A copy that fails leaves what it made of the file.
PartialCopy(i) ==
    /\ CanCreate(dest, i)
    /\ Fault
    /\ dest' = [dest EXCEPT ![i] = Reg(None, 0, None)]

\* findFileInOtherLayers and findFileInOSTreeRepos look the digest up.
InOtherLayers(i) == source.layer # None /\ source.layer.content = tar[i].content
FindFile(i) ==
    /\ InOtherLayers(i)
    /\ \/ CopyFrom(i, "layer") /\ NextEntry
       \/ PartialCopy(i) /\ pc' = "host" /\ UNCHANGED at

-----------------------------------------------------------------------------
(* ApplyDiff. *)
ReadManifest ==
    /\ pc = "manifest"
    /\ LET entries == ManifestAt(ManifestOffset)[2] IN
       toc' = maybeDoIDRemap(EndOffsets(entries, ManifestOffset))
    /\ pc' = "entry"
    /\ UNCHANGED <<config, source, dest, missing, request, at, refusals, faults>>

\* A manifest that was changed on the way does not have the digest of the annotation, or an
\* owner has no ID in the namespace.
BadManifest ==
    /\ pc = "manifest"
    /\ Fault
    /\ Fail
    /\ UNCHANGED <<config, source, toc, dest, missing, request, refusals>>

\* safeSymlink sets no attributes; a device or a fifo has no digest, so that nothing is found
\* for it, and nothing to ask the server for.
Entry ==
    /\ pc = "entry" /\ at <= Len(tar)
    /\ LET e == tar[at] IN
       \/ /\ e.type = "dir" \/ (e.type = "reg" /\ e.content = 0)
          /\ dest' = [dest EXCEPT ![at] = Reg(0, toc[at].attr, None)]
          /\ NextEntry
          /\ UNCHANGED faults
       \/ /\ e.type = "symlink"
          /\ dest' = [dest EXCEPT ![at] = Reg(0, 0, None)]
          /\ NextEntry
          /\ UNCHANGED faults
       \/ /\ e.type \in {"link", "special"}
          /\ NextEntry
          /\ UNCHANGED <<dest, faults>>
       \/ Size(e) > 0 /\ FindFile(at)
       \/ /\ Size(e) > 0 /\ ~InOtherLayers(at)
          /\ pc' = "host"
          /\ UNCHANGED <<dest, at, faults>>
    /\ UNCHANGED <<config, source, toc, missing, request, refusals>>

Missing ==
    /\ missing' = Append(missing, Chunk(at))
    /\ NextEntry

\* findFileOnTheHost: the digest is checked before the copy and after it.
HostHas == hostDedup /\ source.host # None /\ source.host.content = tar[at].content
LookOnHost ==
    /\ pc = "host"
    /\ IF HostHas THEN pc' = "copy" /\ UNCHANGED <<missing, at>> ELSE Missing
    /\ UNCHANGED <<config, source, toc, dest, request, refusals, faults>>

CopyFromHost ==
    /\ pc = "copy"
    /\ \/ CopyFrom(at, "host") /\ pc' = "again" /\ UNCHANGED <<missing, at>>
       \/ PartialCopy(at) /\ Missing
       \/ /\ ~CanCreate(dest, at) /\ ~canDedup(at, "host")
          /\ Missing
          /\ UNCHANGED <<dest, faults>>
    /\ UNCHANGED <<config, source, toc, request, refusals>>

trustCopy ==
    /\ pc = "again"
    /\ NextEntry
    /\ UNCHANGED <<config, source, toc, dest, missing, request, refusals, faults>>

CheckAgain ==
    /\ pc = "again"
    /\ IF source.host.content = tar[at].content THEN NextEntry /\ UNCHANGED missing ELSE Missing
    /\ UNCHANGED <<config, source, toc, dest, request, refusals, faults>>

\* Someone writes the file of the host; what is linked to it would change with it, so that
\* links are only asked for where nobody does.
HostWrites ==
    /\ pc # "manifest" /\ hostDedup /\ ~hardLinks /\ source.host # None
    /\ Fault
    /\ source' = [source EXCEPT !.host.content = MaxContent + 1]
    /\ UNCHANGED <<config, toc, dest, missing, request, pc, at, refusals>>

Requested ==
    /\ pc = "entry" /\ at > Len(tar)
    /\ IF missing = <<>> THEN pc' = "links" /\ UNCHANGED <<missing, request>>
       ELSE /\ missing' = mergeMissingChunks(missing, MaxChunks)
            /\ request' = missing'
            /\ pc' = "request"
    /\ UNCHANGED <<config, source, toc, dest, at, refusals, faults>>

\* retrieveMissingFiles: a server that refuses the request gets it again, after the chunks
\* were merged; the request itself stays.
Refused ==
    /\ pc = "request"
    /\ refusals < MaxRefusals
    /\ refusals' = refusals + 1
    /\ IF Len(missing) < MinRequest THEN Fail /\ UNCHANGED missing
       ELSE missing' = mergeMissingChunks(missing, Len(missing) \div 2) /\ UNCHANGED <<pc, at>>
    /\ UNCHANGED <<config, source, toc, dest, request, faults>>

\* storeMissingFiles: each part is read in turn, gaps are dropped, and each file is made of
\* what its length says, has its size, and has the digest of the manifest.
Store(s, f, part) ==
    IF s.failed THEN s
    ELSE IF f.gap > 0 THEN [s EXCEPT !.read = @ + f.gap]
    ELSE LET i    == f.file
             len  == toc[i].EndOffset - toc[i].Offset
             data == SubSeq(part, s.read + 1, Min({s.read + Size(tar[i]), Len(part)})) IN
         [dest   |-> [s.dest EXCEPT ![i] = Reg(tar[i].content, toc[i].attr, None)],
          read   |-> s.read + len,
          failed |-> ~CanCreate(s.dest, i) \/ data # Data(tar[i].content)]

StorePart(s, m, part) ==
    LET step[j \in 0..Len(m.Files)] == IF j = 0 THEN [s EXCEPT !.read = 0] ELSE Store(step[j - 1], m.Files[j], part)
    IN step[Len(m.Files)]

storeMissingFiles ==
    LET step[j \in 0..Len(missing)] ==
            IF j = 0 THEN [dest |-> dest, read |-> 0, failed |-> FALSE]
            ELSE IF j > Len(request) THEN [step[j - 1] EXCEPT !.failed = TRUE]
            ELSE StorePart(step[j - 1], missing[j], GetBlobAt(request[j]))
        end == step[Len(missing)]
    IN [end EXCEPT !.failed = @ \/ Len(request) > Len(missing)]

Retrieve ==
    /\ pc = "request"
    /\ \/ /\ dest' = storeMissingFiles.dest
          /\ pc' = IF storeMissingFiles.failed THEN "failed" ELSE "links"
          /\ UNCHANGED <<at, faults>>
       \/ Fault /\ Fail /\ UNCHANGED dest
    /\ UNCHANGED <<config, source, toc, missing, request, refusals>>

\* The attributes of the link that is made last to entry i, or of its own.
LinkedAttr(i, attr) ==
    LET links == {j \in DOMAIN toc : tar[j].type = "link" /\ tar[j].content = i} IN
    IF links = {} THEN attr ELSE toc[Max(links)].attr

\* safeLink: links are made when all files are there, and set the attributes of the file that
\* they share, which may be shared with another layer.
Links ==
    /\ pc = "links"
    /\ LET file(i) == IF dest[i] = None THEN None ELSE [dest[i] EXCEPT !.attr = LinkedAttr(i, @)] IN
       dest' = [i \in DOMAIN dest |-> IF tar[i].type = "link" THEN file(tar[i].content) ELSE file(i)]
    /\ pc' = IF \E i \in DOMAIN dest : tar[i].type = "link" /\ dest[tar[i].content] = None
             THEN "failed" ELSE "done"
    /\ source' = [from \in {"layer", "host"} |->
          IF \E i \in DOMAIN dest : tar[i].type = "link" /\ dest'[i] # None /\ dest'[i].inode = from
          THEN [source[from] EXCEPT !.attr =
                    toc[CHOOSE i \in DOMAIN dest : tar[i].type = "link" /\ dest'[i].inode = from].attr]
          ELSE source[from]]
    /\ UNCHANGED <<config, toc, missing, request, at, refusals, faults>>

-----------------------------------------------------------------------------
EntryAt(i) ==
    [type : {"dir"}, content : {0}, attr : {1}] \cup [type : {"reg"}, content : 0..MaxContent, attr : {1}]
        \cup [type : {"link"}, content : 1..i - 1, attr : {1}]
        \cup [type : {"symlink", "special"}, content : {0}, attr : {1}]
Tars == {t \in [1..MaxEntries -> EntryAt(MaxEntries)] :
            \A i \in 1..MaxEntries : t[i] \in EntryAt(i)
                                     /\ (t[i].type = "link" => t[t[i].content].type \in {"reg", "symlink", "special"})}
\* Their attributes matter for links only.
Source(links) ==
    {None} \cup [content : 1..MaxContent, attr : IF links THEN 1..2 ELSE {1},
                  said : IF links THEN 1..2 ELSE {1}]

Init ==
    /\ tar \in Tars /\ format \in Format
    /\ blob = WriteManifest(tar, format)
    /\ hardLinks \in BOOLEAN /\ hostDedup \in BOOLEAN /\ idRemap \in BOOLEAN
    /\ source \in [layer : Source(hardLinks), host : IF hostDedup THEN Source(hardLinks) ELSE {None}]
    /\ source.host # None => source.host.said = source.host.attr
    /\ was = source
    /\ toc = <<>> /\ missing = <<>> /\ request = <<>>
    /\ dest = [i \in 1..MaxEntries |-> None]
    /\ pc = "manifest" /\ at = 1 /\ refusals = 0 /\ faults = 0

Next ==
    \/ ReadManifest \/ BadManifest \/ Entry \/ LookOnHost \/ CopyFromHost \/ CheckAgain
    \/ HostWrites \/ Requested \/ Refused \/ Retrieve \/ Links
    \/ pc \in {"done", "failed"} /\ UNCHANGED vars

Spec == Init /\ [][Next]_vars

-----------------------------------------------------------------------------
\* The chunks of a request are ranges of the blob, files have entries of the layer, and the
\* steps are those of ApplyDiff.
TypeOK ==
    /\ pc \in {"manifest", "entry", "host", "copy", "again", "request", "links", "done", "failed"}
    /\ at \in 1..MaxEntries + 1
    /\ \A j \in 1..Len(missing) : /\ missing[j].Length > 0
                                 /\ missing[j].Offset + missing[j].Length <= ManifestOffset
    /\ \A i \in 1..MaxEntries : dest[i] # None => dest[i].inode \in {"layer", "host", None}
    /\ refusals \in 0..MaxRefusals /\ faults \in 0..MaxFaults

\* A file of another layer that has other attributes than that layer's manifest says, as
\* when its owners were remapped: canDedupMetadataWithHardLink compares the manifests.
Misdescribed(from) == was[from] # None /\ was[from].said # was[from].attr

\* When ApplyDiff returns no error, every entry of the layer is there with the content and
\* the attributes that the layer has for it, remapped if that was asked for, wherever it was
\* taken from; no copy that failed or that was taken while the file changed is left
\* (findFileOnTheHost, copyFileContent, createFileFromCompressedStream).  Three exceptions:
\* devices and fifos are not made (storage_linux.go:1265-1268), symbolic links belong to who
\* makes them (safeSymlink), and a hard link to a misdescribed file has its attributes.
AppliedFaithful ==
    pc = "done" =>
        \A i \in 1..MaxEntries :
            LET e == IF tar[i].type = "link" THEN tar[tar[i].content] ELSE tar[i] IN
            IF e.type = "special" THEN dest[i] = None
            ELSE /\ dest[i] # None /\ dest[i].content = e.content
                 /\ \/ dest[i].attr = IF idRemap THEN toContainer(e.attr) ELSE e.attr
                    \/ e.type = "symlink"
                    \/ dest[i].inode # None /\ Misdescribed(dest[i].inode)

\* The files of other layers and of the host keep their attributes, also when they are linked
\* into the new layer and linked again there ("setting them modifies the source file
\* as well", ApplyDiff), unless they are misdescribed.
OthersUntouched ==
    \A from \in {"layer", "host"} :
        was[from] # None /\ ~Misdescribed(from) => source[from].attr = was[from].attr

\* However chunks are merged, each part has its files one after the other, with a gap where
\* the blob has something else between them, and no file is in two parts or in none
\* (mergeMissingChunks).
MergeSound ==
    LET Len1(f) == IF f.gap > 0 THEN f.gap ELSE toc[f.file].EndOffset - toc[f.file].Offset
        Before(m, j) == LET sum[k \in 0..j - 1] == IF k = 0 THEN 0 ELSE sum[k - 1] + Len1(m.Files[k])
                        IN sum[j - 1] IN
    pc = "request" =>
        /\ Len(missing) <= MaxChunks
        /\ \A n \in 1..Len(missing) : LET m == missing[n] IN
              /\ Before(m, Len(m.Files) + 1) = m.Length
              /\ \A j \in 1..Len(m.Files) :
                    m.Files[j].gap = 0 => toc[m.Files[j].file].Offset = m.Offset + Before(m, j)
        /\ \A i \in 1..MaxEntries : Size(tar[i]) > 0 /\ (dest[i] = None \/ dest[i].content = None) =>
              Cardinality({n \in 1..Len(missing) : \E j \in 1..Len(missing[n].Files) :
                               missing[n].Files[j].file = i}) = 1

\* ApplyDiff fails only for a cause from outside: when files can be read, copied and fetched,
\* and nobody changes them, the layer is made, unless it has a hard link to a device or a fifo,
\* which were not made.
FailsForACause ==
    pc = "failed" =>
        \/ faults > 0 \/ refusals > 0
        \/ \E i \in 1..MaxEntries : tar[i].type = "link" /\ tar[tar[i].content].type = "special"

=============================================================================
