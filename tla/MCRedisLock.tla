---------------------------- MODULE MCRedisLock ----------------------------
EXTENDS RedisLock

CONSTANTS o1, o2
=============================================================================
