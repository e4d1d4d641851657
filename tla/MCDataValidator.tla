-------------------------- MODULE MCDataValidator --------------------------
(***************************************************************************)
(* Bounds for the data validator: blocks of three bytes and elements of    *)
(* one or two, so that elements of two are cut by block bounds.            *)
(***************************************************************************)
EXTENDS DataValidator

MCSlices == UserStrides({-2, 1, 4}, {0, 2}) \cup {USER_STRIDE_ALL}

\* Elements of one and of two bytes.
MCMaxLen == <<5, 6>>

=============================================================================
