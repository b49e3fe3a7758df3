-------------------------- MODULE ProtocolSession --------------------------
(***************************************************************************)
(* The downloads that NewDownloaderFromURL makes for the other kinds of    *)
(* URL, next to the HTTP session of DownloadSession: FTP, SFTP, WebDAV and *)
(* S3 read one stream and resume, if at all, at the size of the local      *)
(* file; a metalink's file is an HTTP session followed by a check of its   *)
(* hash; a torrent collects files in a data directory and moves them.      *)
(*                                                                         *)
(* They share the output file, the kinds of server and the restarts of     *)
(* DownloadSession and use neither control file nor retries.               *)
(***************************************************************************)
EXTENDS DownloadSession

CONSTANT Protocols  \* the kinds of URL to start with

ASSUME ProtocolAssumption ==
    Protocols \subseteq {"http", "metalink", "ftp", "sftp", "webdav", "s3", "torrent"}

VARIABLES proto,     \* the kind of URL
          at,        \* where the open output file is written next
          selected,  \* the files of the torrent, a block each, to be downloaded
          data,      \* those that are complete in its data directory
          displaced  \* history: WebDAV resumed, S3 was sent the whole object to resume
                     \* with, or an output was renamed away from its control file

pvars == <<vars, proto, at, selected, data, displaced>>

Streams == {"ftp", "sftp", "webdav", "s3"}
Is(p) == proto = p
HTTP == proto \in {"http", "metalink"}

\* The files whose path matches one of SelectFiles: any set of them, the empty
\* one too.
Selections == SUBSET Blocks

\* A metalink's downloads have the default configuration.
PInit ==
    /\ Init
    /\ proto \in Protocols
    /\ proto # "http" => ~conf.ctl /\ ~conf.prealloc /\ ~conf.conditional
    /\ selected \in IF Is("torrent") THEN Selections ELSE {Blocks}
    /\ at = 0 /\ data = {} /\ displaced = FALSE

unused  == <<conf, ctl, cf, total, have, part, lm, ctxDone, hist, restarts, proto, selected>>
outcome == <<ticking, attempt, ended>>

-----------------------------------------------------------------------------
(* Before the stream: the remote size and the local file.                   *)

\* Connect and Login.
FTPLogin ==
    /\ Is("ftp") /\ Goto("load", "size")
    /\ UNCHANGED <<unused, flen, good, pos, outcome, at, data, displaced, cut>>

\* SIZE
FTPSize ==
    /\ Is("ftp") /\ Goto("size", "local")
    /\ UNCHANGED <<unused, flen, good, pos, outcome, at, data, displaced, cut>>

\* PROPFIND answers with the content length.
PropFind ==
    /\ Is("webdav") /\ Goto("load", "local")
    /\ UNCHANGED <<unused, flen, good, pos, outcome, at, data, displaced, cut>>

HeadObject ==
    /\ Is("s3") /\ Goto("load", "local")
    /\ UNCHANGED <<unused, flen, good, pos, outcome, at, data, displaced, cut>>

\* The SSH connection and the SFTP client on it.
SFTPConnect ==
    /\ Is("sftp") /\ Goto("load", "remote")
    /\ UNCHANGED <<unused, flen, good, pos, outcome, at, data, displaced, cut>>

\* Any error before the stream ends the download.
ContactFails ==
    /\ proto \in Streams /\ pc \in {"load", "size", "remote", "local", "request"} /\ Fails("error")
    /\ UNCHANGED <<unused, flen, good, pos, at, data, displaced, cut>>

\* "file already fully downloaded, skipping"
SkipLocal ==
    /\ proto \in Streams /\ pc = "local" /\ flen = FileSize
    /\ Succeeds("skip")
    /\ UNCHANGED <<unused, flen, good, pos, at, data, displaced, cut>>

OpenLocal_Appends ==
    /\ proto \in Streams /\ Goto("local", "request") /\ flen # FileSize
    /\ flen' = Max(flen, 0)
    /\ at' = flen' /\ pos' = 0
    /\ UNCHANGED <<unused, good, outcome, data, displaced, cut>>

\* FTP and S3 go to the end of a local file of n units, WebDAV stays at its
\* beginning.
WriteOffset(n) == IF Is("webdav") THEN 0 ELSE n

\* The rest is asked for; WebDAV and S3 ask for everything if the local file
\* is the longer one.
RangeStart(n) == IF ~Is("ftp") /\ n > FileSize THEN 0 ELSE n

\* The local file is kept if it has something.
OpenLocal ==
    /\ proto \in Streams /\ Goto("local", "request") /\ flen # FileSize
    /\ flen' = Max(flen, 0)
    /\ at' = WriteOffset(flen') /\ pos' = RangeStart(flen')
    /\ UNCHANGED <<unused, good, outcome, data, displaced, cut>>

\* Open and Stat; the local file always starts anew.
SFTPOpen ==
    /\ Is("sftp") /\ Goto("remote", "stream")
    /\ flen' = 0 /\ good' = {} /\ at' = 0 /\ pos' = 0
    /\ UNCHANGED <<unused, outcome, data, displaced, cut>>

-----------------------------------------------------------------------------
(* The request.                                                             *)

\* PASV or PORT, REST unless at the beginning, RETR.  A server without REST
\* refuses (ContactFails).
FTPRetr ==
    /\ Is("ftp") /\ Goto("request", "stream") /\ (pos > 0 => ServesRange)
    /\ UNCHANGED <<unused, flen, good, pos, outcome, at, data, displaced, cut>>

\* 206: the rest of the file.  (GetObject's test for a ContentRange of the
\* local size repeats SkipLocal's.)
GetPartial ==
    /\ proto \in {"webdav", "s3"} /\ Goto("request", "stream") /\ pos > 0 /\ ServesRange
    /\ displaced' = (displaced \/ Is("webdav"))
    /\ UNCHANGED <<unused, flen, good, pos, outcome, at, data, cut>>

\* 200, asked for or not: WebDAV empties the file, S3 does not look.
GetWhole ==
    /\ proto \in {"webdav", "s3"} /\ Goto("request", "stream") /\ (pos > 0 => IgnoresRange)
    /\ pos' = 0
    /\ IF Is("webdav")
       THEN flen' = 0 /\ good' = {} /\ displaced' = FALSE
       ELSE displaced' = (displaced \/ at > 0) /\ UNCHANGED <<flen, good>>
    /\ UNCHANGED <<unused, outcome, at, data, cut>>

-----------------------------------------------------------------------------
(* The stream.                                                              *)

StreamRead ==
    /\ proto \in Streams /\ pc = "stream" /\ pos < FileSize
    /\ pos' = pos + 1 /\ at' = at + 1 /\ flen' = Max(flen, at + 1)
    /\ good' = IF at = pos THEN good \cup {pos} ELSE good \ {at}
    /\ UNCHANGED <<unused, outcome, pc, data, displaced, cut>>

\* io.EOF at the end of the file.
StreamEnds ==
    /\ proto \in Streams /\ pc = "stream" /\ pos >= FileSize
    /\ Succeeds("stream")
    /\ UNCHANGED <<unused, flen, good, pos, at, data, displaced, cut>>

\* A read or a write fails, or the context is cancelled.
StreamFails ==
    /\ proto \in Streams /\ pc = "stream" /\ Fails("error")
    /\ UNCHANGED <<unused, flen, good, pos, at, data, displaced, cut>>

\* An FTP data connection has no length, nor need a WebDAV body have one: when
\* it is closed early it ends with io.EOF.  FTP's reply that says so is not
\* read.
StreamCut ==
    /\ proto \in {"ftp", "webdav"} /\ pc = "stream" /\ pos < FileSize /\ "cut" \in Faults
    /\ Succeeds("stream") /\ cut' = TRUE
    /\ UNCHANGED <<unused, flen, good, pos, at, data, displaced>>

-----------------------------------------------------------------------------
(* Metalink: the hash of a file is checked after its download.  A hash of a *)
(* kind that the program does not know is passed over.                      *)

VerifyHash ==
    /\ Is("metalink") /\ pc = "returned" /\ ended \in {"skip", "pieces", "stream"} /\ ~ticking
    /\ ended' \in {IF good = Units THEN "verified" ELSE "failed", ended}
    /\ pc' = "checked"
    /\ UNCHANGED <<unused, flen, good, pos, ticking, attempt, at, data, displaced, cut>>

-----------------------------------------------------------------------------
(* BitTorrent: the library fetches and verifies the files.                  *)

createTorrentClient ==
    /\ Is("torrent") /\ Goto("load", "client")
    /\ UNCHANGED <<unused, flen, good, pos, outcome, at, data, displaced, cut>>

addTorrent ==
    /\ Is("torrent") /\ Goto("client", "info")
    /\ UNCHANGED <<unused, flen, good, pos, outcome, at, data, displaced, cut>>

\* The metadata has arrived.  The selected files get a priority; the library
\* finds what the data directory holds.
TorrentInfo ==
    /\ Is("torrent") /\ Goto("info", "swarm")
    /\ UNCHANGED <<unused, flen, good, pos, outcome, at, data, displaced, cut>>

TorrentFile(b) ==
    /\ Is("torrent") /\ pc = "swarm" /\ b \in selected \ data
    /\ data' = data \cup {b}
    /\ UNCHANGED <<unused, flen, good, pos, outcome, pc, at, displaced, cut>>

TorrentFails ==
    /\ Is("torrent") /\ pc \in {"load", "client", "info", "swarm"} /\ Fails("error")
    /\ UNCHANGED <<unused, flen, good, pos, at, data, displaced, cut>>

\* isDownloadComplete, asked every second.
TorrentComplete == selected \subseteq data

TorrentDone ==
    /\ Is("torrent") /\ Goto("swarm", "move") /\ TorrentComplete
    /\ pos' = 0
    /\ UNCHANGED <<unused, flen, good, outcome, at, data, displaced, cut>>

\* moveFiles renames all files in order; pos counts them.  One that was not
\* selected has no data of its own: there may be a part of it, from a piece
\* it shares with its neighbour.
MoveFile ==
    /\ Is("torrent") /\ pc = "move" /\ pos \in Blocks
    /\ pos' = pos + 1 /\ data' = data \ {pos}
    /\ \/ pos \in data /\ good' = good \cup UnitsOf(pos)
       \/ pos \notin selected /\ UNCHANGED good
    /\ UNCHANGED <<unused, flen, outcome, pc, at, displaced, cut>>

\* The files, moved or not, are seeded until the ratio or the time is
\* reached or the context is cancelled, which is no error.
seed ==
    /\ Is("torrent") /\ Goto("move", "seed")
    /\ UNCHANGED <<unused, flen, good, pos, outcome, at, data, displaced, cut>>

\* An error of moveFiles, as the first file that is not there gives, is logged:
\* the files after it stay, and the download has succeeded.
TorrentReturns ==
    /\ Is("torrent") /\ pc \in {"move", "seed"} /\ Succeeds("moved")
    /\ UNCHANGED <<unused, flen, good, pos, at, data, displaced, cut>>

-----------------------------------------------------------------------------
\* The command line tool, which makes no conditional requests, gives the file
\* the name of Content-Disposition if no file has it: the next run finds no
\* output, but maybe a control file.
RenameOutput ==
    /\ Is("http") /\ ~conf.conditional /\ pc = "returned"
    /\ ended \in {"skip", "pieces", "stream"} /\ ~ticking
    /\ pc' = "renamed" /\ ended' = "renamed" /\ flen' = Absent /\ good' = {}
    /\ displaced' = (displaced \/ ctl # None)
    /\ UNCHANGED <<unused, pos, ticking, attempt, at, data, cut>>

PRestart == Restart /\ at' = 0 /\ UNCHANGED <<proto, selected, data, displaced>>

PNext ==
    \/ /\ HTTP /\ (SessionStep \/ Cancel \/ Tick \/ TickerEnds)
       /\ UNCHANGED <<proto, at, selected, data, displaced>>
    \/ FTPLogin \/ FTPSize \/ PropFind \/ HeadObject \/ SFTPConnect \/ ContactFails
    \/ SkipLocal \/ OpenLocal \/ SFTPOpen
    \/ FTPRetr \/ GetPartial \/ GetWhole
    \/ StreamRead \/ StreamEnds \/ StreamFails \/ StreamCut
    \/ VerifyHash \/ RenameOutput
    \/ createTorrentClient \/ addTorrent \/ TorrentInfo \/ TorrentFails
    \/ TorrentDone \/ MoveFile \/ seed \/ TorrentReturns
    \/ \E b \in Blocks : TorrentFile(b)
    \/ PRestart

PSpec == PInit /\ [][PNext]_pvars

-----------------------------------------------------------------------------
(* Correctness.                                                             *)

\* What the next run will not fetch again is in the file: for HTTP the blocks
\* of the saved bitmaps (BitsWritten), for the stream protocols everything up
\* to the file's size, where they resume - failed, cut off and killed at any
\* moment.  Not so once data was displaced: WebDAV does not go to the end of
\* the file to resume, S3 appends the whole object if that is the answer, and
\* a control file that a skipped download leaves outlives the output's name.
ResumeSound ==
    /\ HTTP /\ pc # "renamed" /\ ~displaced => BitsWritten
    /\ proto \in Streams /\ ~displaced => good = 0..(flen - 1)

\* Success means a complete file: for HTTP as PiecesComplete and
\* SequentialComplete say; for a stream that was read to its end, unless it was
\* cut off or data displaced, and by "already fully downloaded" also after a
\* cut; a verified metalink always; a torrent has every selected file in the
\* output or still in the data directory.
SessionComplete ==
    /\ HTTP /\ ~displaced => PiecesComplete /\ SequentialComplete
    /\ proto \in Streams /\ ~displaced =>
          (ended = "skip" \/ (ended = "stream" /\ ~cut) => good = Units)
    /\ Is("metalink") /\ ended = "verified" => good = Units
    /\ Is("torrent") /\ ended = "moved" => \A b \in selected \ data : IsWritten(b)

=============================================================================
