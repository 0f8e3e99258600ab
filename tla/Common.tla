------------------------------- MODULE Common -------------------------------
(***************************************************************************)
(* The error codes and access bits of include/common.h, shared by the      *)
(* naming server, the storage servers and the clients.                     *)
(***************************************************************************)
ERR_SUCCESS == 0
ERR_FILE_NOT_FOUND == 1
ERR_FILE_EXISTS == 2
ERR_PERMISSION_DENIED == 3
ERR_LOCKED == 4
ERR_INVALID_PARAM == 5
ERR_SERVER_ERROR == 6
ERR_NOT_OWNER == 7
ERR_USER_NOT_FOUND == 8
ERR_SS_NOT_FOUND == 9
ERR_CHECKPOINT_NOT_FOUND == 12
ACCESS_READ == 1
ACCESS_WRITE == 2
=============================================================================
