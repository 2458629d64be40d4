--------------------------- MODULE MCLocalStorage ---------------------------
(* Headers of two bytes, blocks of eight.  Messages of one, three and four  *)
(* make records of three, five and six: two short ones end where a long one *)
(* does, two short ones fit a block and no other two, and no header is cut; *)
(* with messages of five, the second header is.                             *)
EXTENDS LocalStorage
=============================================================================
