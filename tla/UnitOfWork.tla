----------------------------- MODULE UnitOfWork -----------------------------
(* The part of the SQLAlchemy unit of work every handler of the backend and  *)
(* the worker relies on. A handler loads a row into its session, assigns     *)
(* attributes, and the flush issues an UPDATE of the columns whose value     *)
(* differs from the one it loaded. No row carries a version, so the columns  *)
(* the handler did not change keep what the database holds by then.          *)

(* What the database holds in one column once a session that loaded the      *)
(* value `loaded' and left the attribute at `current' has flushed.           *)
NetChange(stored, loaded, current) ==
    IF current = loaded THEN stored ELSE current

=============================================================================
