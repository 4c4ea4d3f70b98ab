------------------------------- MODULE Errno -------------------------------
(***************************************************************************)
(* The values of errno.h that the drivers and the HAL return, negated.     *)
(***************************************************************************)
EXTENDS Integers

EIO         == -5
EWOULDBLOCK == -11
EACCES      == -13
ENODEV      == -19
EMFILE      == -24
ENOTTY      == -25
EBADFD      == -81
=============================================================================
