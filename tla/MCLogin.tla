------------------------------- MODULE MCLogin --------------------------------
(* Four requests, with or without the development account.                     *)
EXTENDS LoginSessions

MCDevelopmentUsers == [userId : {Dev}, username : {"ann"}, password : {"pw"}]
===============================================================================
