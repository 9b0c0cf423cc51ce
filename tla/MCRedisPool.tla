---- MODULE MCRedisPool ----
EXTENDS RedisPool
====
