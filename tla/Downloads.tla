------------------------------ MODULE Downloads ------------------------------
(***************************************************************************)
(* Acquiring one URL into the content-addressed media cache: Http::download*)
(* and Http::acquire (remote.rs:155-370), ObjectStore::download            *)
(* (remote.rs:435-495), LocalFile::acquire and move_into_cache             *)
(* (acquire.rs:172-230, 297-345).  Several indexing jobs may acquire the   *)
(* same URL; a job may fail, the process may die between any two steps,    *)
(* and what either leaves behind is what the next attempt finds.  What is  *)
(* on a video site is downloaded by the program yt-dlp (YtDlp::acquire,    *)
(* acquire.rs:468-562), which keeps an archive of what it has downloaded   *)
(* and is not killed when its job is gone.                                 *)
(*                                                                         *)
(* A file is an inode with its chunks: chunk i of version v of the media   *)
(* is v, a hole that was never written 0.  Names point at inodes, so that  *)
(* an open file follows a rename.  A hash is the content it is of.         *)
(***************************************************************************)
EXTENDS Naturals, Sequences

CONSTANTS
  Fetchers,      \* jobs that acquire the URL
  Size,          \* chunks in the media
  MaxVersion,    \* bound: times the server may replace the media, plus one
  MaxAttempts    \* bound: attempts over all jobs

VARIABLES
  scheme,        \* "http", "object" or "site"
  version,       \* what the server serves now
  inodes,        \* sequence of the contents of every file created
  part, dest,    \* inodes incoming/<name>.part and incoming/<name> are, 0 = none
  cache,         \* <cache>/<hash>.<ext>: hash -> inode
  fetch,         \* job -> [at, have, file, append, serving, written, hash]
  attempts,
  archive,       \* whether the archive in incoming/ names the video
  stray          \* a yt-dlp without its job: "never" one, "runs", "ended"

vars == <<scheme, version, inodes, part, dest, cache, fetch, attempts, archive, stray>>
siteVars == <<archive, stray>>

Idle == [at |-> "idle", have |-> 0, file |-> 0, append |-> FALSE, serving |-> 0,
         written |-> 0, hash |-> <<>>]

Init ==
  /\ scheme \in {"http", "object", "site"}
  /\ version = 1 /\ inodes = <<>> /\ part = 0 /\ dest = 0
  /\ cache = [h \in {} |-> 0]
  /\ fetch = [j \in Fetchers |-> Idle]
  /\ attempts = 0 /\ archive = FALSE /\ stray = "never"

Content(i) == IF i = 0 THEN <<>> ELSE inodes[i]

To(j, at) == fetch' = [fetch EXCEPT ![j] = [Idle EXCEPT !.at = at]]

\* acquire: a file already downloaded is not downloaded again; else the length
\* of the partial file is where to resume.
Start(j) ==
  /\ scheme # "site" /\ fetch[j].at = "idle" /\ attempts < MaxAttempts
  /\ attempts' = attempts + 1
  /\ fetch' = [fetch EXCEPT ![j] =
       [Idle EXCEPT !.at = IF dest # 0 THEN "hash" ELSE "get",
                    !.have = IF scheme = "http" THEN Len(Content(part)) ELSE 0]]
  /\ UNCHANGED <<scheme, version, inodes, part, dest, cache, siteVars>>

\* An error status, a page instead of media, a size over the limit, too many
\* redirects: nothing is written.
Refuse(j) ==
  /\ fetch[j].at = "get"
  /\ To(j, "failed")
  /\ UNCHANGED <<scheme, version, inodes, part, dest, cache, attempts, siteVars>>

\* 416: the partial file goes and the download starts over.
NotSatisfiable(j) ==
  /\ fetch[j].at = "get" /\ fetch[j].have >= Size
  /\ part' = 0
  /\ fetch' = [fetch EXCEPT ![j].have = 0]
  /\ UNCHANGED <<scheme, version, inodes, dest, cache, attempts, siteVars>>

\* 206: the rest is appended to the partial file, which must still be there.
Resume(j) ==
  /\ fetch[j].at = "get" /\ fetch[j].have \in 1..(Size - 1)
  /\ IF part = 0 THEN To(j, "failed")
     ELSE fetch' = [fetch EXCEPT ![j].at = "body", ![j].file = part, ![j].append = TRUE,
                                 ![j].serving = version, ![j].written = fetch[j].have]
  /\ UNCHANGED <<scheme, version, inodes, part, dest, cache, attempts, siteVars>>

\* A server that ignores the range has its body appended all the same.
CreateOrAppend(j) ==
  /\ fetch[j].at = "get"
  /\ IF part = 0 THEN inodes' = Append(inodes, <<>>) /\ part' = Len(inodes) + 1
     ELSE UNCHANGED <<inodes, part>>
  /\ fetch' = [fetch EXCEPT ![j].at = "body", ![j].file = part', ![j].append = TRUE,
                            ![j].serving = version, ![j].written = 0]
  /\ UNCHANGED <<scheme, version, dest, cache, attempts, siteVars>>

\* 200, with or without a range asked for: the partial file is created anew or
\* truncated.
Create(j) ==
  /\ fetch[j].at = "get"
  /\ IF part = 0 THEN inodes' = Append(inodes, <<>>) /\ part' = Len(inodes) + 1
     ELSE inodes' = [inodes EXCEPT ![part] = <<>>] /\ UNCHANGED part
  /\ fetch' = [fetch EXCEPT ![j].at = "body", ![j].file = part', ![j].append = FALSE,
                            ![j].serving = version, ![j].written = 0]
  /\ UNCHANGED <<scheme, version, dest, cache, attempts, siteVars>>

\* A chunk written at a job's own place in a file, or at its end.
Written(content, place, v) ==
  [i \in 1..(IF place > Len(content) THEN place ELSE Len(content)) |->
     IF i = place THEN v ELSE IF i <= Len(content) THEN content[i] ELSE 0]

Write(j) ==
  LET f == fetch[j]
      place == IF f.append THEN Len(inodes[f.file]) + 1 ELSE f.written + 1
  IN /\ f.at = "body" /\ f.written < Size
     /\ inodes' = [inodes EXCEPT ![f.file] = Written(@, place, f.serving)]
     /\ fetch' = [fetch EXCEPT ![j].written = @ + 1]
     /\ UNCHANGED <<scheme, version, part, dest, cache, attempts, siteVars>>

\* The connection breaks or the time is up: an HTTP part stays to be resumed,
\* an object's is removed when it was short (remote.rs:485) or left.
Cut(j) ==
  /\ fetch[j].at = "body" /\ fetch[j].written < Size
  /\ To(j, "failed")
  /\ \/ UNCHANGED part
     \/ scheme = "object" /\ part' = 0
  /\ UNCHANGED <<scheme, version, inodes, dest, cache, attempts, siteVars>>

\* All the bytes promised arrived: rename, which fails without a partial file.
Rename(j) ==
  /\ fetch[j].at = "body" /\ fetch[j].written = Size
  /\ IF part = 0 THEN To(j, "failed") /\ UNCHANGED <<part, dest>>
     ELSE /\ dest' = part /\ part' = 0
          /\ fetch' = [fetch EXCEPT ![j].at = "hash"]
  /\ UNCHANGED <<scheme, version, inodes, cache, attempts, siteVars>>

HashFile(j) ==
  /\ fetch[j].at = "hash"
  /\ IF dest = 0 THEN To(j, "failed")
     ELSE fetch' = [fetch EXCEPT ![j].at = "move", ![j].hash = Content(dest)]
  /\ UNCHANGED <<scheme, version, inodes, part, dest, cache, attempts, siteVars>>

\* move_into_cache: the same content is not stored twice.
Move(j) ==
  /\ fetch[j].at = "move"
  /\ IF dest = 0 THEN To(j, "failed") /\ UNCHANGED <<dest, cache>>
     ELSE /\ dest' = 0
          /\ cache' = IF fetch[j].hash \in DOMAIN cache THEN cache
                      ELSE [h \in DOMAIN cache \cup {fetch[j].hash} |->
                              IF h = fetch[j].hash THEN dest ELSE cache[h]]
          /\ fetch' = [fetch EXCEPT ![j].at = "acquired"]
  /\ UNCHANGED <<scheme, version, inodes, part, attempts, siteVars>>

\* A failed job may be started again; a crash ends them all.
Retry(j) ==
  /\ fetch[j].at \in {"failed", "acquired"}
  /\ To(j, "idle")
  /\ UNCHANGED <<scheme, version, inodes, part, dest, cache, attempts, siteVars>>

Crash ==
  /\ \E j \in Fetchers : fetch[j].at # "idle"
  /\ fetch' = [j \in Fetchers |-> Idle]
  /\ stray' \in {stray} \cup (IF archive \/ \A j \in Fetchers : fetch[j].at # "tool" THEN {} ELSE {"runs"})
  /\ UNCHANGED <<scheme, version, inodes, part, dest, cache, attempts, archive>>

-----------------------------------------------------------------------------
\* YtDlp::acquire: without the program nothing is downloaded.
StartSite(j) ==
  /\ scheme = "site" /\ fetch[j].at = "idle" /\ attempts < MaxAttempts
  /\ attempts' = attempts + 1
  /\ \E at \in {"tool", "failed"} : To(j, at)
  /\ UNCHANGED <<scheme, version, inodes, part, dest, cache, siteVars>>

\* The program downloads, renames to incoming/<id>.<ext> and notes it.
ToolDownloads ==
  /\ inodes' = Append(inodes, [i \in 1..Size |-> version])
  /\ dest' = Len(inodes) + 1 /\ archive' = TRUE

\* It prints the path it moved the file to, or nothing when the archive names
\* the video.
ToolEnds(j) ==
  /\ fetch[j].at = "tool"
  /\ IF archive THEN To(j, "find") /\ UNCHANGED <<inodes, dest, archive>>
     ELSE To(j, "hash") /\ ToolDownloads
  /\ UNCHANGED <<scheme, version, part, cache, attempts, stray>>

\* It fails, or the time is up and it is left to itself.
ToolFails(j) ==
  /\ fetch[j].at = "tool" /\ To(j, "failed")
  /\ stray' \in {stray} \cup (IF archive THEN {} ELSE {"runs"})
  /\ UNCHANGED <<scheme, version, inodes, part, dest, cache, attempts, archive>>

StrayEnds ==
  /\ stray = "runs" /\ stray' = "ended"
  /\ ToolDownloads \/ UNCHANGED <<inodes, dest, archive>>
  /\ UNCHANGED <<scheme, version, part, cache, fetch, attempts>>

\* find_by_url_id: a file named by the id in the URL, if it has one.
FindById(j) ==
  /\ fetch[j].at = "find"
  /\ \/ dest # 0 /\ To(j, "hash")
     \/ To(j, "failed")
  /\ UNCHANGED <<scheme, version, inodes, part, dest, cache, attempts, siteVars>>

-----------------------------------------------------------------------------
Replace ==
  /\ version < MaxVersion /\ version' = version + 1
  /\ UNCHANGED <<scheme, inodes, part, dest, cache, fetch, attempts, siteVars>>

Next ==
  \/ \E j \in Fetchers : \/ Start(j) \/ Refuse(j) \/ NotSatisfiable(j) \/ Resume(j)
                         \/ Create(j) \/ Write(j) \/ Cut(j) \/ Rename(j) \/ HashFile(j)
                         \/ Move(j) \/ Retry(j)
                         \/ StartSite(j) \/ ToolEnds(j) \/ ToolFails(j) \/ FindById(j)
  \/ Crash \/ StrayEnds \/ Replace

Spec == Init /\ [][Next]_vars

-----------------------------------------------------------------------------
(* (P1) One job at a time, whatever fails or crashes: what the cache holds *)
(* is what the server sent, chunk for chunk, nothing lost or twice, under  *)
(* the hash of its content; and the chunks are of one version unless a     *)
(* resumed download met another one, which nothing in the code notices     *)
(* (remote.rs:180).  What the archive names was not lost: it waits in      *)
(* incoming/ or is in the cache, so that it need not be downloaded again.  *)
(* A yt-dlp that outlived its job is a second job.                         *)
CachedMediaIsWhole ==
  stray = "never" =>
    /\ \A h \in DOMAIN cache :
         /\ inodes[cache[h]] = h
         /\ Len(h) = Size
         /\ \A i \in 1..Size : h[i] > 0 /\ (i < Size => h[i] <= h[i + 1])
         /\ scheme # "http" => \A i \in 1..Size : h[i] = h[1]
    /\ archive => dest # 0 \/ DOMAIN cache # {}

(* What acquire.rs:5 and :165 say of the cache, with as many jobs on one   *)
(* URL as ask for it.                                                      *)
CacheIsContentAddressed == \A h \in DOMAIN cache : inodes[cache[h]] = h
=============================================================================
