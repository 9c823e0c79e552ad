-------------------------------- MODULE Access --------------------------------
(***************************************************************************)
(* The two ways into the dashboard side by side: a password                 *)
(* (src/src/core/auth/login-throttle.ts) and a code that replaces it        *)
(* (src/src/core/auth/password-reset.ts).  They share no row: a reset       *)
(* neither lifts the lock of the sign-in nor ends a session.                *)
(***************************************************************************)
EXTENDS LoginThrottle, PasswordRecovery

(* Each lets through as many wrong guesses, texts and resets as it promises, *)
(* however the requests overlap.                                            *)
AccessIsLimited == LoginsAreLimited /\ RecoveriesAreLimited
=============================================================================
