-------------------------- MODULE MCBackupRestore ---------------------------
EXTENDS BackupRestore

MCStreams == {"s1", "s2"}
=============================================================================
