------------------------------- MODULE MCSftp -------------------------------
(* Sftp with a file of two units read two at a time, a directory of two  *)
(* names, and two blocks to upload.                                        *)
EXTENDS Sftp

File == <<"x", "y">>
Listing == <<"a", "b">>
Stream == <<<<"p", "q">>, <<"r">>>>
SomeJobs == {{"r", "d"}, {"w"}}
SomeVersions == {4}
=============================================================================
