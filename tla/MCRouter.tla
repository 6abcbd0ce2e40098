------------------------------ MODULE MCRouter ------------------------------
(* Small instances of Router for TLC. *)
EXTENDS Router

CONSTANTS k1, k2

\* One filter, and a different list of two filters.
MCRequests == {<< {k1} >>, << {k2}, {k1} >>}

\* One filter only, where the lists do not matter.
MCOneRequest == {<< {k1} >>}

\* A filter that no frame passes: the frame queue stays empty.
MCQuietRequest == {<< {} >>}
=============================================================================
