----------------------------- MODULE MCListing ------------------------------
(* Instances of Listing for TLC.                                           *)
EXTENDS Listing

MCNames == 1..5
=============================================================================
