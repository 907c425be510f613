---------------------------- MODULE MCAioListio ----------------------------
(***************************************************************************)
(* Instance of AioListio for TLC: three buffers and files of up to five    *)
(* chunks.  The buffers are used a second time, and the last round has no  *)
(* request, one or two.                                                    *)
(***************************************************************************)
EXTENDS AioListio

=============================================================================
