------------------------------ MODULE MCYouTube ------------------------------
(* Small instances of YouTube for TLC. *)
EXTENDS YouTubeProperties
=============================================================================
