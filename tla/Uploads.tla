-------------------------------- MODULE Uploads --------------------------------
(***************************************************************************)
(* Uploads to /static/upload: the name is checked, the second of the       *)
(* upload put before its extension, and the content copied chunk by chunk  *)
(* into the file of that name (utils/file_ops.py, api/v1/sys/file.py).     *)
(***************************************************************************)
EXTENDS Naturals, Sequences, FiniteSets

CONSTANTS
  Uploaders,   \* requests
  UploadNames, \* what the names are up to their extensions
  Chunks,      \* pieces of a file, at most
  Seconds      \* bound on the time

ASSUME UploadsAssumption == Chunks \in Nat \ {0} /\ Seconds \in Nat \ {0}

Extensions == {"lower", "upper", "none", "image"}

VARIABLES
  second,  \* the time
  upload,  \* upload[u]: its step, name, extension and length, where it writes, and
           \* how far it is
  content  \* the files there are: content[f] says whose each piece is

uploadVars == <<second, upload, content>>

NoUpload == [step |-> "new", name |-> "none", ext |-> "none", len |-> 0, at |-> <<>>, pos |-> 0]
Paths == UploadNames \X Extensions \X (0..Seconds)

UploadTypeOK ==
  /\ second \in 1..Seconds
  /\ \A u \in Uploaders : /\ upload[u].step \in {"new", "write", "done", "refused"}
                          /\ upload[u].at \in Paths \cup {<<>>}
                          /\ upload[u].pos \in 0..Chunks
  /\ DOMAIN content \subseteq Paths
  /\ \A f \in DOMAIN content : content[f] \in Seq(Uploaders) /\ Len(content[f]) <= Chunks

UploadInit ==
  /\ second = 1 /\ upload = [u \in Uploaders |-> NoUpload]
  /\ content = [f \in {} |-> <<>>]

NextSecond == second < Seconds /\ second' = second + 1 /\ UNCHANGED <<upload, content>>

\* upload_file_verify compares the extension with the words "image" and "video":
\* a file that ends so is refused, every other passes.
Verified(ext) == ext # "image"

\* build_filename puts the second in place of the extension where it finds it, in
\* lower case after a dot; otherwise the name only gets the extension once more.
BuildFilename(name, ext) == <<name, ext, IF ext = "lower" THEN second ELSE 0>>

\* The file is opened, and empty from then on.
Open(u, name, ext, len) ==
  LET f == BuildFilename(name, ext)
      w == [step |-> "write", name |-> name, ext |-> ext, len |-> len, at |-> f, pos |-> 0]
  IN  /\ upload[u].step = "new"
      /\ IF Verified(ext)
         THEN /\ upload' = [upload EXCEPT ![u] = w]
              /\ content' = [g \in DOMAIN content \cup {f} |-> IF g = f THEN <<>> ELSE content[g]]
         ELSE /\ upload' = [upload EXCEPT ![u].step = "refused"] /\ UNCHANGED content
      /\ UNCHANGED second

\* What is in a file after u wrote its piece at position n; a gap reads as its own
\* zeroes, which are nobody's: here those of the writer.
Overwritten(old, n, u) ==
  [i \in 1..(IF Len(old) < n THEN n ELSE Len(old)) |->
     IF i = n \/ i > Len(old) THEN u ELSE old[i]]

\* One piece more, or the end: the answer names the file.
WriteChunk(u) ==
  LET w == upload[u]
  IN  /\ w.step = "write"
      /\ IF w.pos < w.len
         THEN /\ upload' = [upload EXCEPT ![u].pos = @ + 1]
              /\ content' = [content EXCEPT ![w.at] = Overwritten(@, w.pos + 1, u)]
         ELSE upload' = [upload EXCEPT ![u].step = "done"] /\ UNCHANGED content
      /\ UNCHANGED second

\* Reading or writing fails: what was written stays.
UploadFails(u) ==
  /\ upload[u].step = "write" /\ upload' = [upload EXCEPT ![u].step = "refused"]
  /\ UNCHANGED <<second, content>>

UploadNext ==
  \/ NextSecond
  \/ \E u \in Uploaders :
       \/ \E name \in UploadNames, ext \in Extensions, len \in 1..Chunks : Open(u, name, ext, len)
       \/ WriteChunk(u) \/ UploadFails(u)

UploadSpec == UploadInit /\ [][UploadNext]_uploadVars

-----------------------------------------------------------------------------

\* A file that was acknowledged keeps its content, whoever uploads before, beside
\* or after it, unless the same name came again within the second; without an
\* extension in lower case, unless it came again at all.
UploadsKept ==
  \A u \in Uploaders : upload[u].step = "done" =>
    \/ content[upload[u].at] = [i \in 1..upload[u].len |-> u]
    \/ \E q \in Uploaders \ {u} :
         /\ upload[q].name = upload[u].name /\ upload[q].ext = upload[u].ext
         /\ upload[u].ext = "lower" => upload[q].at[3] = upload[u].at[3]

=============================================================================
