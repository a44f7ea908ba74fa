--------------------------- MODULE MCDockerSource ---------------------------
(* DockerSource for TLC, with one name: the managers of two names share    *)
(* only the channel and the watcher, and one name already fills a channel  *)
(* of one slot.                                                            *)
EXTENDS DockerSource
=============================================================================
